---- MODULE Spec2Model ----
(***************************************************************************)
(* Model of babysitter (JackKelly/babysitter): the Checker / Manager       *)
(* supervisory loop of src/babysitter/babysitter.py driven by main() of    *)
(* src/power_babysitter.py.                                                *)
(*                                                                         *)
(* One sequential program (pc) runs main's outer loop and Manager.run.     *)
(* The watched process, the disk and the data directory change freely      *)
(* between any two reads, so what the program reads from them (pidof, the  *)
(* free space, the directory listing) is an input of the step that reads   *)
(* it; the wall clock is state and only moves forward.                     *)
(*                                                                         *)
(* Specifications:                                                         *)
(*   Spec         main and Manager.run, the clock advancing by the sleeps  *)
(*   SpecMain     main and the first tick of every session, the clock      *)
(*                also jumping by more than an hour                        *)
(*   SpecProcess  a Process check on its own                               *)
(*   SpecLife     main and Manager.run with the reports of the whole life  *)
(*                of the program observed                                  *)
(*   SpecChecker  the edge detection of a Checker on its own               *)
(*   SpecHeartbeat  a HeartBeat and the heartbeat scheduler on their own   *)
(*   SpecState    the state() of each kind of check on its own             *)
(*   SpecNoHeartbeat  the scheduler when no heartbeat hour is configured   *)
(*   SpecSendEmail, SpecSendEmailFair  Manager.send_email on its own, the  *)
(*                second with the fairness its termination needs           *)
(*   SpecSubdir   Manager._find_last_numeric_subdir on its own             *)
(*   SpecFile     the edge check of a File on its own                      *)
(*   SpecDisk     DiskSpaceRemaining.time_until_full on its own            *)
(*   SpecFileGrows  a FileGrows check in the loop of Manager.run            *)
(***************************************************************************)
EXTENDS Integers, Sequences, FiniteSets, TLC

----------------------------------------------------------------------------
(* Program constants *)

FAIL == 0
OK == 1
UPDATE_PERIOD == 10
MAX_RESTART_RETRIES == 5
RESET_RETRIES_AFTER == 60 * 60
RESTART_SLEEP == 5
MAX_RETRIES == 5
RESET_AFTER == 60 * 60
File_timeout == 120
LOAD_SLEEP == 5
threshold == 5000
heartbeat_hour == 6

(* Python's None and "" for sub_data_dir: both falsy, neither a directory  *)
(* name.  Strings that are compared character by character are sequences   *)
(* of ASCII codes.                                                         *)
None == <<0>>
EmptyStr == <<>>
Truthy(s) == s /= None /\ s /= EmptyStr

NoCommand == "None"
MaxRetriesMsg == "Max restart retries reached for rfm_ecomanager_logger.py"
SomeCommand == "nohup rfm_ecomanager_logger.py"

----------------------------------------------------------------------------
(* Bounds of the model *)

StartTime == 21580
Horizon == 3700
MaxTicks == 6
MaxLaterTicks == 1
MaxSessions == 2
MaxMainSessions == 10
MaxElapses == 4
MaxEvals == 6
MaxGapHours == 24
MaxLifeTicks == 2
MaxLifeSessions == 2
MaxFileSize == 2
FileModified == 1000
MaxClockHours == 49
MaxTime == StartTime + Horizon
LongDelay == RESET_RETRIES_AFTER + 1

(* Directory names the environment may create under base_data_dir:         *)
(* "3", "10" and "t".                                                      *)
DirNames == { <<51>>, <<49, 48>>, <<116>> }
(* Free space values (MB) around the threshold *)
AvailValues == { threshold, threshold + 1 }

----------------------------------------------------------------------------
VARIABLES
    \* environment
    now,                \* time.time(), seconds
    \* configuration
    restart_command,    \* Process.restart_command
    \* main()
    pc,
    main_retries,       \* main's local `retries`
    previous_loop_time,
    main_end,           \* how main ended: "", "break", "while_end", "reraise"
    \* Manager and its checkers
    i,                  \* index of `checker` in the for loop of run
    html,               \* whether run's local `html` is non-empty
    last_state,         \* Checker.last_state, per checker
    retries,            \* Process.retries
    prev_restart_time,  \* Process.prev_restart_time
    sub_data_dir,
    shutdown_reason,
    last_checked,       \* HeartBeat.last_checked
    \* observation of the current tick
    changed,            \* checkers whose just_changed_state returned True
    sent,               \* reports sent since the tick began, or by shutdown
    guard_fail,         \* line 570 found the Process check FAIL in this tick
    restart_calls,      \* calls of Process.restart in this tick
    spawns,             \* restart commands spawned in this tick
    restart_log,        \* the call of Process.restart that just ended
    fail_run,           \* consecutive FAIL ticks since the counter was 0
    latest,             \* what line 597 recomputed as the latest subdir
    \* observation of the whole run
    ticks,              \* sleeps of line 603 in this session
    sessions,
    any_reset,          \* main reset its retry counter at least once
    run_exit,           \* how the last Manager.run was left
    \* observation of the whole life of the program, kept when observe
    observe,
    hb_any,             \* the calendar hour of the latest heartbeat report of
                        \* any kind, and how many were sent in that hour
    hb_sched,           \* the same for the heartbeats of lines 592-593
    alerts_total,       \* state-change reports sent in this session
    spawns_total,       \* restart commands spawned in this session
    scenario,           \* how far the session has followed the restart
                        \* scenario (see next_scenario)
    sigint_lost,        \* a SIGINT delivered while the latest reports were
                        \* sent was caught inside get_ip_address
    \* a Checker on its own (edge detection)
    c_last_state,
    c_evals,
    c_edges,
    \* a HeartBeat on its own (the scheduler)
    hb_hour,            \* HeartBeat.hour
    hb_last_checked,    \* HeartBeat.last_checked
    hb_clock,           \* time.time() at the latest construction or call
    hb_called,          \* the scheduler was called since the construction
    hb_prev,            \* last_checked as the latest call found it
    hb_ret,             \* what the latest call returned
    hb_example,         \* calls so far follow ExampleHours up to here, or -1
    hb_rets,            \* what the calls along ExampleHours returned
    hb_due_clock,       \* calendar hour of the latest call that returned
                        \* True, or -1
    hb_session_dues,    \* calls that returned True since the construction
    hb_off_since,       \* since the latest call that returned True, some call
                        \* was made at an hour other than HeartBeat.hour
    hb_started_here,    \* hb_clock is in the calendar hour of the construction
    hb_day_gap,         \* since the construction, two consecutive calls (or
                        \* the construction and the first call) were a day
                        \* or more apart
    \* the state() of each kind of check on its own
    st_kind,            \* the kind of check whose state() was called latest
    st_failed,          \* the inspection it made failed
    st_out,             \* what the call returned, or that it raised
    fg_last_size,       \* FileGrows.last_size
    fg_entry_size,      \* last_size as the latest FileGrows.state found it
    fg_reads,           \* what the two os.path.getsize of that call yielded
    \* a FileGrows check in the supervisor loop
    fg_file,            \* the size of the file
    fg_last_state,      \* FileGrows.last_state
    fg_changes,         \* changes of the size so far
    fg_settled,         \* at the latest change, last_size was the size of
                        \* the file and last_state was OK
    fg_evals,           \* what the evaluations of state() since the latest
                        \* change returned
    fg_edges,           \* what the edge checks since the latest change
                        \* returned
    fg_rendered,        \* a report was rendered between the latest change
                        \* and the first edge check after it
    fg_alerts,          \* state-change alerts for this check since the
                        \* latest change
    f_dead_duration,    \* File.dead_duration
    f_clock,            \* time.time() as the latest File.state read it
    f_getmtime,         \* what os.path.getmtime yielded in that call
    f_last_state,       \* File.last_state
    f_output_dead_duration, \* File.output_dead_duration
    f_edge,             \* the latest File.just_changed_state: the state its
                        \* two evaluations found, last_state as it found
                        \* it, what it returned
    \* Manager.send_email on its own
    se_server,          \* Manager.SMTP_SERVER is set
    se_pc,              \* where the latest call of send_email is
    se_retries,         \* its local variable retries
    se_attempts,        \* passes through the try block in the latest call
    se_sendmails,       \* of these, the ones whose sendmail() returned
    se_last,            \* how the latest pass ended
    se_slept,           \* time.sleep(2) calls in the latest call
    se_reports,         \* calls of send_email so far
    \* Manager._find_last_numeric_subdir on its own
    sd_existing,        \* the subdirectories of base_data_dir
    sd_sub_data_dir,    \* Manager.sub_data_dir
    sd_walk,            \* what os.walk listed in the latest call
    sd_last,            \* what the latest call returned
    sd_called,          \* who called it last: "load", "run" or "none"
    \* DiskSpaceRemaining.time_until_full on its own
    d_initial_space_remaining,  \* DiskSpaceRemaining.initial_space_remaining
    d_initial_time,     \* DiskSpaceRemaining.initial_time, seconds
    d_reads,            \* the clock and the free space (MB) as the latest
                        \* call read them, in the order of the reads
    d_out,              \* what the latest call returned
    \* the spawn of Process.restart on its own
    p_popen,            \* how subprocess.Popen went in the latest restart,
                        \* "none" when the call did not reach it
    p_ok_since,         \* the process was found running since the latest
                        \* spawn
    p_all_recovered     \* so far the process was found running between
                        \* any two calls of restart that found it down

mainvars == <<pc, main_retries, previous_loop_time, main_end>>
mgrvars == <<i, html, last_state, retries, prev_restart_time, sub_data_dir,
             shutdown_reason, last_checked>>
tickobs == <<changed, sent, guard_fail, restart_calls, spawns, restart_log,
             fail_run, latest>>
runobs == <<ticks, sessions, any_reset, run_exit>>
lifeobs == <<observe, hb_any, hb_sched, alerts_total, spawns_total,
             scenario, sigint_lost>>
cvars == <<c_last_state, c_evals, c_edges>>
hvars == <<hb_hour, hb_last_checked, hb_clock, hb_called, hb_prev, hb_ret,
           hb_example, hb_rets, hb_due_clock, hb_session_dues, hb_off_since,
           hb_started_here, hb_day_gap>>
fgobs == <<fg_file, fg_last_state, fg_changes, fg_settled, fg_evals,
           fg_edges, fg_rendered, fg_alerts>>
fgvars == <<fg_last_size, fg_entry_size, fg_reads, fgobs>>
fvars == <<f_dead_duration, f_clock, f_getmtime, f_last_state,
           f_output_dead_duration, f_edge>>
svars == <<st_kind, st_failed, st_out, fgvars, fvars>>
mvars == <<se_server, se_pc, se_retries, se_attempts, se_sendmails, se_last,
           se_slept, se_reports>>
nvars == <<sd_existing, sd_sub_data_dir, sd_walk, sd_last, sd_called>>
dvars == <<d_initial_space_remaining, d_initial_time, d_reads, d_out>>
pvars == <<p_popen, p_ok_since, p_all_recovered>>
units2 == <<mvars, nvars, dvars, pvars>>
unitvars == <<cvars, hvars, svars, units2>>
progvars == <<now, restart_command, mainvars, mgrvars, tickobs, runobs,
              lifeobs>>
vars == <<now, restart_command, mainvars, mgrvars, tickobs, runobs, lifeobs,
          unitvars>>

----------------------------------------------------------------------------
(* The checkers appended by _set_config, in order *)

checkers == << "DiskSpaceRemaining", "Process" >>
NCheckers == Len(checkers)
ProcessIdx == 2

(* restart_log before any call: what the call did, and retries, the        *)
(* lateness of the call and the process as the call found them.            *)
NoRestart ==
    [outcome |-> "none", entry_retries |-> 0, entry_late |-> FALSE,
     entry_up |-> FALSE]

----------------------------------------------------------------------------
(* Checker *)

(* Faulty variant: the edge is reported but last_state is not updated *)
just_changed_state_keeps_last(s, last) ==
    [ret |-> s /= last, last_state |-> last]

(* Checker.just_changed_state on the evaluated state s and the stored      *)
(* last_state: the returned value and last_state afterwards.               *)
just_changed_state(s, last) ==
    IF s = last
    THEN [ret |-> FALSE, last_state |-> last]
    ELSE [ret |-> TRUE, last_state |-> s]

(* DiskSpaceRemaining.state with a MB of free space *)
DiskSpaceRemaining_state(a) == IF a > threshold THEN OK ELSE FAIL

(* Process.state: the value returned; pidof finds the process (up) or      *)
(* fails with CalledProcessError ...                                       *)
Process_state(up) == IF up THEN OK ELSE FAIL

(* Faulty variant: every state() resets retries *)
retries_always_reset(r, p, t) == 0

(* Faulty variant: retries is never reset *)
retries_never_reset(r, p, t) == r

(* ... and its side effect on retries, read at time t                      *)
retries_after_state(r, p, t) ==
    IF r /= 0 /\ t - p > RESET_RETRIES_AFTER THEN 0 ELSE r

(* What checker.state() of the k-th checker can return *)
state(k) ==
    IF checkers[k] = "Process"
    THEN { Process_state(up) : up \in BOOLEAN }
    ELSE { DiskSpaceRemaining_state(a) : a \in AvailValues }

(* Faulty variant: restart does not look at restart_command *)
restart_without_command_check(cmd, up, r, p, t) ==
    LET r0 == retries_after_state(r, p, t) IN
    IF Process_state(up) = OK
    THEN [outcome |-> "already_ok", retries |-> r0, prev_restart_time |-> p]
    ELSE IF r0 > MAX_RESTART_RETRIES
    THEN [outcome |-> "raised", retries |-> r0, prev_restart_time |-> p]
    ELSE [outcome |-> "spawned", retries |-> r0 + 1, prev_restart_time |-> t]

(* Faulty variant: finding the process running refills the retry budget *)
restart_refills_on_ok(cmd, up, r, p, t) ==
    IF cmd = NoCommand
    THEN [outcome |-> "no_command", retries |-> r, prev_restart_time |-> p]
    ELSE LET r0 == retries_after_state(r, p, t) IN
         IF Process_state(up) = OK
         THEN [outcome |-> "already_ok", retries |-> 0,
               prev_restart_time |-> p]
         ELSE IF r0 > MAX_RESTART_RETRIES
         THEN [outcome |-> "raised", retries |-> r0, prev_restart_time |-> p]
         ELSE [outcome |-> "spawned", retries |-> r0 + 1,
               prev_restart_time |-> t]

(* Faulty variant: a restart attempt does not record its time *)
restart_forgets_time(cmd, up, r, p, t) ==
    IF cmd = NoCommand
    THEN [outcome |-> "no_command", retries |-> r, prev_restart_time |-> p]
    ELSE LET r0 == retries_after_state(r, p, t) IN
         IF Process_state(up) = OK
         THEN [outcome |-> "already_ok", retries |-> r0,
               prev_restart_time |-> p]
         ELSE IF r0 > MAX_RESTART_RETRIES
         THEN [outcome |-> "raised", retries |-> r0, prev_restart_time |-> p]
         ELSE [outcome |-> "spawned", retries |-> r0 + 1,
               prev_restart_time |-> p]

(* Faulty variant: restart never gives up *)
restart_never_gives_up(cmd, up, r, p, t) ==
    IF cmd = NoCommand
    THEN [outcome |-> "no_command", retries |-> r, prev_restart_time |-> p]
    ELSE LET r0 == retries_after_state(r, p, t) IN
         IF Process_state(up) = OK
         THEN [outcome |-> "already_ok", retries |-> r0,
               prev_restart_time |-> p]
         ELSE [outcome |-> "spawned", retries |-> r0 + 1,
               prev_restart_time |-> t]

(* Faulty variant: restart gives up as soon as retries reaches the maximum *)
restart_raises_at_max(cmd, up, r, p, t) ==
    IF cmd = NoCommand
    THEN [outcome |-> "no_command", retries |-> r, prev_restart_time |-> p]
    ELSE LET r0 == retries_after_state(r, p, t) IN
         IF Process_state(up) = OK
         THEN [outcome |-> "already_ok", retries |-> r0,
               prev_restart_time |-> p]
         ELSE IF r0 >= MAX_RESTART_RETRIES
         THEN [outcome |-> "raised", retries |-> r0, prev_restart_time |-> p]
         ELSE [outcome |-> "spawned", retries |-> r0 + 1,
               prev_restart_time |-> t]

(* How subprocess.Popen can go: it raises an Exception, the command has    *)
(* terminated with an error when poll() is called, or it has not.          *)
PopenOutcomes == {"Exception", "terminated", "running"}

(* Faulty variant: the exception of Popen is not caught *)
spawn_propagates(popen) ==
    IF popen = "Exception" THEN "raised" ELSE "logged"

(* Lines 184-194: whatever Popen does is logged, nothing is raised *)
spawn(popen) ==
    CASE popen = "Exception" -> "logged"
      [] popen = "terminated" -> "logged"
      [] popen = "running" -> "logged"

(* Process.restart, called at time t with the process found up or not:     *)
(* what it did, and retries and prev_restart_time afterwards.              *)
restart(cmd, up, r, p, t) ==
    IF cmd = NoCommand
    THEN [outcome |-> "no_command", retries |-> r, prev_restart_time |-> p]
    ELSE LET r0 == retries_after_state(r, p, t) IN
         IF Process_state(up) = OK
         THEN [outcome |-> "already_ok", retries |-> r0,
               prev_restart_time |-> p]
         ELSE IF r0 > MAX_RESTART_RETRIES
         THEN [outcome |-> "raised", retries |-> r0, prev_restart_time |-> p]
         ELSE [outcome |-> "spawned", retries |-> r0 + 1,
               prev_restart_time |-> t]

----------------------------------------------------------------------------
(* Heartbeat scheduler and data-directory watcher *)

(* datetime.datetime.now().hour *)
Hours == 0..23
SecondsPerHour == 3600
CalendarHour(t) == t \div SecondsPerHour
hour(t) == CalendarHour(t) % 24

(* Faulty variant: a new HeartBeat has checked at no hour yet *)
HeartBeat_last_checked_unset(t) == -1

(* HeartBeat.__init__ at time t: last_checked *)
HeartBeat_last_checked(t) == hour(t)

(* Faulty variant: the scheduler ignores last_checked *)
need_to_send_every_call(now_hour, hb_hour_, last) == now_hour = hb_hour_

(* Faulty variant: the scheduler is never due *)
need_to_send_never(now_hour, hb_hour_, last) == FALSE

(* HeartBeat.hour when no hour is configured (None, which equals no hour   *)
(* of the day)                                                             *)
NoHour == -1

(* Faulty variant: without a configured hour every hour is the hour *)
need_to_send_without_hour(now_hour, hb_hour_, last) ==
    hb_hour_ = NoHour \/ (now_hour = hb_hour_ /\ last /= hb_hour_)

(* Manager._need_to_send_heartbeat at the hour now_hour, with the          *)
(* HeartBeat's hour and last_checked: the value returned ...               *)
need_to_send_heartbeat(now_hour, hb_hour_, last) ==
    now_hour = hb_hour_ /\ last /= hb_hour_

(* Faulty variant: last_checked is not updated *)
last_checked_kept(now_hour, last) == last

(* ... and last_checked afterwards (line 612)                              *)
last_checked_after(now_hour, last) == now_hour

(* str.isalpha on one ASCII character *)
isalpha(c) == c \in 65..90 \/ c \in 97..122

(* Python's < on two strings *)
StrLess(a, b) ==
    \E k \in 1..(Len(a) + 1) :
        /\ k <= Len(b)
        /\ \A j \in 1..(k - 1) : a[j] = b[j]
        /\ (k = Len(a) + 1 \/ a[k] < b[k])

(* Manager._find_last_numeric_subdir on the listing of base_data_dir *)
find_last_numeric_subdir(existing_subdirs) ==
    LET numeric_subdirs ==
            { d \in existing_subdirs : ~ \E k \in 1..Len(d) : isalpha(d[k]) }
    IN  IF numeric_subdirs = {}
        THEN None
        ELSE CHOOSE m \in numeric_subdirs :
                 \A d \in numeric_subdirs : d = m \/ StrLess(d, m)

Last(q) == q[Len(q)]
Count(q, x) == Cardinality({k \in 1..Len(q) : q[k] = x})

(* A report handed to send_email *)
Report(subject, note) == [subject |-> subject, note |-> note]
HeartbeatReport == Report("Babysitter heartbeat", "")
ClosingHeartbeat == Report("Babysitter heartbeat", "New subdir found")
AlertReport == Report("Babysitter detected state change.", "")
ShutdownReport(reason) == Report("babysitter.py shutting down", reason)

----------------------------------------------------------------------------
(* The wall clock moves by more than RESET_RETRIES_AFTER between two steps *)
(* (a blocked call, a suspended machine, a clock step).                    *)
Stall ==
    /\ pc /= "done"
    /\ now + LongDelay <= MaxTime
    /\ now' = now + LongDelay
    /\ UNCHANGED <<restart_command, mainvars, mgrvars, tickobs, runobs,
                   lifeobs, unitvars>>

----------------------------------------------------------------------------
(* Manager.run *)

base_data_dir == <<47, 100>>

RunPcs == {"for", "alert", "sleep"}

(* Manager.html() renders every checker, which evaluates its state():      *)
(* retries after the Process check's state() at the current time.          *)
retries_after_html == retries_after_state(retries, prev_restart_time, now)

(* The end of the body of `for checker in self.checkers` *)
NextChecker ==
    IF i < NCheckers
    THEN i' = i + 1 /\ pc' = "for"
    ELSE i' = i /\ pc' = "alert"

(* Faulty variant: the guard of line 570 never holds *)
process_never_down(kind, s) == FALSE

(* Line 570: isinstance(checker, Process) and checker.state() == FAIL *)
process_is_down(kind, s) == kind = "Process" /\ s = FAIL

(* Observation: the evaluation s of checker k at line 570 is the Process   *)
(* check found FAIL.                                                       *)
saw_process_fail(k, s) == k = ProcessIdx /\ s = FAIL

(* Lines 565-570 for checker i when the guard of line 570 is false: the    *)
(* edge check on the evaluation s1, then the guard on the evaluation s2.   *)
CheckerBody ==
    /\ pc = "for"
    /\ \E s1 \in state(i), s2 \in state(i) :
          LET jc == just_changed_state(s1, last_state[i]) IN
            /\ ~process_is_down(checkers[i], s2)
            /\ last_state' = [last_state EXCEPT ![i] = jc.last_state]
            /\ changed' = IF jc.ret THEN changed \cup {i} ELSE changed
            /\ html' = (html \/ jc.ret)
            /\ guard_fail' = (guard_fail \/ saw_process_fail(i, s2))
    /\ retries' = IF checkers[i] = "Process" THEN retries_after_html
                  ELSE retries
    /\ NextChecker
    /\ UNCHANGED <<now, restart_command, main_retries, previous_loop_time,
                   main_end, prev_restart_time, sub_data_dir,
                   shutdown_reason, last_checked, sent, restart_calls,
                   spawns, restart_log, fail_run, latest, runobs, lifeobs,
                   unitvars>>

(* Lines 565-582 for checker i when the guard of line 570 is true: the     *)
(* edge check on s1, the guard on s2, then checker.restart(), which finds  *)
(* the process up or not; MaxRetriesError ends run, otherwise              *)
(* time.sleep(5) and checker.html().                                       *)
CheckerBodyRestart ==
    /\ pc = "for"
    /\ \E s1 \in state(i), s2 \in state(i), up \in BOOLEAN :
        LET jc == just_changed_state(s1, last_state[i])
            r0 == retries_after_html
            res == restart(restart_command, up, r0, prev_restart_time, now)
        IN
        /\ process_is_down(checkers[i], s2)
        /\ last_state' = [last_state EXCEPT ![i] = jc.last_state]
        /\ changed' = IF jc.ret THEN changed \cup {i} ELSE changed
        /\ html' = TRUE
        /\ guard_fail' = (guard_fail \/ saw_process_fail(i, s2))
        /\ prev_restart_time' = res.prev_restart_time
        /\ restart_calls' = restart_calls + 1
        /\ spawns' = IF res.outcome = "spawned" THEN spawns + 1 ELSE spawns
        /\ restart_log' =
              [outcome |-> res.outcome, entry_retries |-> r0,
               entry_late |-> (now - prev_restart_time > RESET_RETRIES_AFTER),
               entry_up |-> up]
        /\ fail_run' = IF res.outcome \in {"spawned", "raised"}
                       THEN IF r0 = 0 THEN 1
                            ELSE IF fail_run > 0 THEN fail_run + 1 ELSE 0
                       ELSE 0
        /\ IF res.outcome = "raised"
           THEN /\ shutdown_reason' = MaxRetriesMsg
                /\ run_exit' = "return"
                /\ pc' = "run_returned"
                /\ retries' = res.retries
                /\ UNCHANGED <<now, i>>
           ELSE /\ now' = now + RESTART_SLEEP
                /\ retries' = retries_after_state(res.retries,
                                                  res.prev_restart_time, now')
                /\ NextChecker
                /\ UNCHANGED <<shutdown_reason, run_exit>>
    /\ now + RESTART_SLEEP <= MaxTime
    /\ UNCHANGED <<restart_command, main_retries, previous_loop_time,
                   main_end, sub_data_dir, last_checked, sent, latest, ticks,
                   sessions, any_reset, lifeobs, unitvars>>

(* Faulty variant: run sends no initial heartbeat *)
initial_reports_none == <<>>

(* Lines 558-559: the initial heartbeat *)
initial_reports == <<HeartbeatReport>>

(* Faulty variant: the state-change report is never sent *)
alert_reports_never(h) == <<>>

(* Faulty variant: the state-change report is sent twice *)
alert_reports_twice(h) == IF h THEN <<AlertReport, AlertReport>> ELSE <<>>

(* Lines 584-590: the state-change report *)
alert_reports(h) == IF h THEN <<AlertReport>> ELSE <<>>

(* Lines 592-593: the heartbeat when it is due *)
heartbeat_reports(t, last) ==
    IF need_to_send_heartbeat(hour(t), heartbeat_hour, last)
    THEN <<HeartbeatReport>>
    ELSE <<>>

(* Observation: the latest calendar hour with reports and their number,    *)
(* after n more reports at time t.                                         *)
CountInHour(hc, t, n) ==
    IF n = 0 THEN hc
    ELSE IF hc.hour = CalendarHour(t)
    THEN [hour |-> hc.hour, count |-> hc.count + n]
    ELSE [hour |-> CalendarHour(t), count |-> n]

NoReports == [hour |-> -1, count |-> 0]

(* Observation: the restart scenario.  A session is "running" while the    *)
(* Process check (with a restart command) was up at the baseline and no    *)
(* check has changed state nor a restart been tried; "restarted" after a   *)
(* tick whose edge check found the process dead and which spawned the      *)
(* restart command once; "recovered" after the following tick, if its edge *)
(* check found the process running again and it tried no restart, and      *)
(* through later ticks without change; "off" otherwise.                    *)
next_scenario ==
    LET quiet == changed = {} /\ restart_calls = 0
        died == /\ changed = {ProcessIdx}
                /\ last_state[ProcessIdx] = FAIL
                /\ restart_calls = 1
                /\ spawns = 1
        recovered == /\ changed = {ProcessIdx}
                     /\ last_state[ProcessIdx] = OK
                     /\ restart_calls = 0
    IN  IF scenario = "running" /\ quiet THEN "running"
        ELSE IF scenario = "running" /\ died THEN "restarted"
        ELSE IF scenario = "restarted" /\ recovered THEN "recovered"
        ELSE IF scenario = "recovered" /\ quiet THEN "recovered"
        ELSE "off"

(* send_email calls get_ip_address for every report; a KeyboardInterrupt   *)
(* raised inside its try block (lines 494-496, the socket and the lookup   *)
(* of google.com) is caught by its bare except (line 497), logged, and     *)
(* send_email goes on.  Whether a SIGINT delivered while the reports rs    *)
(* are sent can be lost this way.                                          *)
get_ip_address_catches_sigint(rs) == IF rs = <<>> THEN {FALSE} ELSE BOOLEAN

(* Observation at the end of a tick that sent the reports rs *)
LifeTick(rs) ==
    IF observe
    THEN /\ hb_sched' = CountInHour(hb_sched, now, Count(rs, HeartbeatReport))
         /\ hb_any' = CountInHour(hb_any, now, Count(rs, HeartbeatReport)
                                               + Count(rs, ClosingHeartbeat))
         /\ alerts_total' = alerts_total + Count(rs, AlertReport)
         /\ spawns_total' = spawns_total + spawns
         /\ scenario' = next_scenario
         /\ sigint_lost' \in get_ip_address_catches_sigint(rs)
         /\ UNCHANGED observe
    ELSE UNCHANGED lifeobs

(* Observation at the start of a session: the initial heartbeat was sent   *)
(* after load_powerdata's sleep.                                           *)
LifeSessionStart ==
    IF observe
    THEN /\ hb_any' = CountInHour(hb_any, now', Len(initial_reports))
         /\ alerts_total' = 0
         /\ spawns_total' = 0
         /\ scenario' = IF /\ last_state'[ProcessIdx] = OK
                           /\ restart_command /= NoCommand
                        THEN "running" ELSE "off"
         /\ sigint_lost' \in get_ip_address_catches_sigint(initial_reports)
         /\ UNCHANGED <<observe, hb_sched>>
    ELSE UNCHANGED lifeobs

(* Faulty variant: the watcher never sees a new directory *)
new_data_dir_never(base, sub, last_numeric_subdir) == FALSE

(* Faulty variant: the watcher does not look at sub_data_dir being set *)
new_data_dir_unbound(base, sub, last_numeric_subdir) ==
    Truthy(base) /\ last_numeric_subdir /= sub

(* Lines 595-596: the data-directory watcher *)
new_data_dir(base, sub, last_numeric_subdir) ==
    Truthy(base) /\ Truthy(sub) /\ last_numeric_subdir /= sub

(* Lines 584-601 when the watcher raises: the reports of the tick, the     *)
(* closing heartbeat, NewDataDirError.                                     *)
EndOfTickNewDataDir ==
    /\ pc = "alert"
    /\ \E existing_subdirs \in SUBSET DirNames :
          /\ new_data_dir(base_data_dir, sub_data_dir,
                          find_last_numeric_subdir(existing_subdirs))
          /\ latest' = find_last_numeric_subdir(existing_subdirs)
    /\ sent' = sent \o alert_reports(html)
                    \o heartbeat_reports(now, last_checked)
                    \o <<ClosingHeartbeat>>
    /\ last_checked' = last_checked_after(hour(now), last_checked)
    /\ retries' = retries_after_html
    /\ run_exit' = "NewDataDirError"
    /\ pc' = "new_data_dir"
    /\ LifeTick(alert_reports(html) \o heartbeat_reports(now, last_checked)
                                    \o <<ClosingHeartbeat>>)
    /\ UNCHANGED <<now, restart_command, main_retries, previous_loop_time,
                   main_end, i, html, last_state, prev_restart_time,
                   sub_data_dir, shutdown_reason, changed, guard_fail,
                   restart_calls, spawns, restart_log, fail_run, ticks,
                   sessions, any_reset, unitvars>>

(* Lines 584-601 when the watcher does not raise *)
EndOfTick ==
    /\ pc = "alert"
    /\ \E existing_subdirs \in SUBSET DirNames :
          /\ ~new_data_dir(base_data_dir, sub_data_dir,
                           find_last_numeric_subdir(existing_subdirs))
          /\ latest' = find_last_numeric_subdir(existing_subdirs)
    /\ sent' = sent \o alert_reports(html)
                    \o heartbeat_reports(now, last_checked)
    /\ last_checked' = last_checked_after(hour(now), last_checked)
    /\ retries' = IF html \/ need_to_send_heartbeat(hour(now), heartbeat_hour,
                                                     last_checked)
                  THEN retries_after_html ELSE retries
    /\ pc' = "sleep"
    /\ LifeTick(alert_reports(html) \o heartbeat_reports(now, last_checked))
    /\ UNCHANGED <<now, restart_command, main_retries, previous_loop_time,
                   main_end, i, html, last_state, prev_restart_time,
                   sub_data_dir, shutdown_reason, changed, guard_fail,
                   restart_calls, spawns, restart_log, fail_run, runobs,
                   unitvars>>

(* Line 603: time.sleep(UPDATE_PERIOD), then the next tick begins; at most *)
(* max_ticks sleeps are followed.                                          *)
SleepUpTo(max_ticks) ==
    /\ pc = "sleep"
    /\ ticks < max_ticks
    /\ now + UPDATE_PERIOD <= MaxTime
    /\ now' = now + UPDATE_PERIOD
    /\ ticks' = ticks + 1
    /\ pc' = "for"
    /\ i' = 1
    /\ html' = FALSE
    /\ changed' = {}
    /\ sent' = <<>>
    /\ guard_fail' = FALSE
    /\ restart_calls' = 0
    /\ spawns' = 0
    /\ restart_log' = NoRestart
    /\ fail_run' = IF spawns > 0 THEN fail_run ELSE 0
    /\ latest' = EmptyStr
    /\ UNCHANGED <<restart_command, main_retries, previous_loop_time,
                   main_end, last_state, retries, prev_restart_time,
                   sub_data_dir, shutdown_reason, last_checked, sessions,
                   any_reset, run_exit, lifeobs, unitvars>>

(* MaxTicks sleeps are followed in the first session, MaxLaterTicks in     *)
(* every later one.                                                        *)
Sleep == SleepUpTo(IF sessions = 1 THEN MaxTicks ELSE MaxLaterTicks)

Run == CheckerBody \/ CheckerBodyRestart \/ EndOfTickNewDataDir
       \/ EndOfTick

----------------------------------------------------------------------------
(* main() of power_babysitter.py *)

(* Faulty variant: the outer counter is never reset *)
next_main_retries_no_reset(r, t, prev) == r + 1

(* Lines 184-187: the outer retry counter at the head of the loop body *)
next_main_retries(r, t, prev) ==
    IF t > prev + RESET_AFTER THEN 0 ELSE r + 1

(* Lines 183-194: one pass of the loop head: the counter, Manager(),       *)
(* _set_config (the checkers are constructed, load_powerdata sleeps and    *)
(* binds sub_data_dir), previous_loop_time, and the call of manager.run()  *)
(* up to its first tick (lines 554-559 of babysitter.py: the baseline of   *)
(* every checker, the initial heartbeat).  At most max_sessions passes are *)
(* followed.                                                               *)
NewSessionUpTo(max_sessions) ==
    /\ pc = "main_loop"
    /\ main_retries < MAX_RETRIES
    /\ sessions < max_sessions
    /\ now + LOAD_SLEEP <= MaxTime
    /\ main_retries' = next_main_retries(main_retries, now, previous_loop_time)
    /\ any_reset' = (any_reset \/ now > previous_loop_time + RESET_AFTER)
    /\ now' = now + LOAD_SLEEP
    /\ previous_loop_time' = now'
    /\ shutdown_reason' = ""
    /\ last_checked' = HeartBeat_last_checked(now)
    /\ \E existing_subdirs \in SUBSET DirNames :
          sub_data_dir' = find_last_numeric_subdir(existing_subdirs)
    /\ retries' = 0
    /\ prev_restart_time' = 0
    /\ \E ss \in [1..NCheckers -> {FAIL, OK}] :
          /\ \A k \in 1..NCheckers : ss[k] \in state(k)
          /\ last_state' = ss
    /\ i' = 1
    /\ html' = FALSE
    /\ changed' = {}
    /\ sent' = initial_reports
    /\ guard_fail' = FALSE
    /\ restart_calls' = 0
    /\ spawns' = 0
    /\ restart_log' = NoRestart
    /\ fail_run' = 0
    /\ latest' = EmptyStr
    /\ sessions' = sessions + 1
    /\ run_exit' = ""
    /\ ticks' = 0
    /\ pc' = "for"
    /\ LifeSessionStart
    /\ UNCHANGED <<restart_command, main_end, unitvars>>

MainNewSession == NewSessionUpTo(MaxSessions)

(* Line 183: the while condition fails *)
MainWhileEnd ==
    /\ pc = "main_loop"
    /\ ~(main_retries < MAX_RETRIES)
    /\ pc' = "done"
    /\ main_end' = "while_end"
    /\ UNCHANGED <<now, restart_command, main_retries, previous_loop_time,
                   mgrvars, tickobs, runobs, lifeobs, unitvars>>

(* run has been left: its locals are gone and the observation of its last  *)
(* tick is over.                                                           *)
RunIsOver ==
    /\ i' = 1
    /\ html' = FALSE
    /\ changed' = {}
    /\ guard_fail' = FALSE
    /\ restart_calls' = 0
    /\ spawns' = 0
    /\ restart_log' = NoRestart
    /\ fail_run' = 0
    /\ latest' = EmptyStr

(* Faulty variant: shutdown sends nothing *)
shutdown_silent(reason) ==
    /\ sent' = <<>>
    /\ retries' = retries_after_html

(* Manager.shutdown: the shutdown report (SMTP_SERVER is configured by     *)
(* _set_config); rendering it evaluates every checker.                     *)
shutdown(reason) ==
    /\ sent' = <<ShutdownReport(reason)>>
    /\ retries' = retries_after_html

(* Faulty variant: NewDataDirError ends main like any other exception *)
NewDataDirIsFatal ==
    /\ pc = "new_data_dir"
    /\ pc' = "done"
    /\ main_end' = "reraise"
    /\ RunIsOver
    /\ sent' = <<>>
    /\ UNCHANGED <<now, restart_command, main_retries, previous_loop_time,
                   last_state, retries, prev_restart_time, sub_data_dir,
                   shutdown_reason, last_checked, runobs, lifeobs, unitvars>>

(* Lines 201-202: except NewDataDirError *)
MainExceptNewDataDir ==
    /\ pc = "new_data_dir"
    /\ pc' = "main_loop"
    /\ RunIsOver
    /\ sent' = <<>>
    /\ UNCHANGED <<now, restart_command, main_retries, previous_loop_time,
                   main_end, last_state, retries, prev_restart_time,
                   sub_data_dir, shutdown_reason, last_checked, runobs,
                   lifeobs, unitvars>>

(* Lines 209-211: run returned *)
MainElse ==
    /\ pc = "run_returned"
    /\ shutdown(shutdown_reason)
    /\ RunIsOver
    /\ pc' = "done"
    /\ main_end' = "break"
    /\ UNCHANGED <<now, restart_command, main_retries, previous_loop_time,
                   last_state, prev_restart_time, sub_data_dir,
                   shutdown_reason, last_checked, runobs, lifeobs, unitvars>>

(* Lines 195-200: SIGINT or SIGTERM while run executes *)
MainExceptKeyboardInterrupt ==
    /\ pc \in RunPcs
    /\ shutdown_reason' = "KeyboardInterrupt or SIGINT signal received"
    /\ shutdown(shutdown_reason')
    /\ run_exit' = "KeyboardInterrupt"
    /\ pc' = "done"
    /\ main_end' = "break"
    /\ RunIsOver
    /\ UNCHANGED <<now, restart_command, main_retries, previous_loop_time,
                   last_state, prev_restart_time, sub_data_dir, last_checked,
                   ticks, sessions, any_reset, lifeobs, unitvars>>

(* Lines 203-208: any other exception out of run (os.statvfs failing in    *)
(* DiskSpaceRemaining.state, send_email re-raising)                        *)
ExceptionPcs == {"for", "alert"}

MainExceptException ==
    /\ pc \in ExceptionPcs
    /\ shutdown_reason' = "EXCEPTION: error"
    /\ shutdown(shutdown_reason')
    /\ run_exit' = "Exception"
    /\ pc' = "done"
    /\ main_end' = "reraise"
    /\ RunIsOver
    /\ UNCHANGED <<now, restart_command, main_retries, previous_loop_time,
                   last_state, prev_restart_time, sub_data_dir, last_checked,
                   ticks, sessions, any_reset, lifeobs, unitvars>>

(* Lines 214-215: the exit status of the interpreter once main has ended:  *)
(* 1 when an exception left main (line 208), 0 when main returned after a  *)
(* break or after the while condition failed.                              *)
exit_status == IF main_end = "reraise" THEN 1 ELSE 0

----------------------------------------------------------------------------
(* The program under main() *)

CheckerIdle ==
    /\ c_last_state = OK
    /\ c_evals = <<>>
    /\ c_edges = <<>>

(* main before its loop (lines 176-181), no Manager constructed yet *)
MainIdle ==
    /\ now = StartTime
    /\ restart_command \in {NoCommand, SomeCommand}
    /\ pc = "main_loop"
    /\ main_retries = 0
    /\ previous_loop_time = StartTime
    /\ main_end = ""
    /\ i = 1
    /\ html = FALSE
    /\ last_state = [k \in 1..NCheckers |-> OK]
    /\ retries = 0
    /\ prev_restart_time = 0
    /\ sub_data_dir = EmptyStr
    /\ shutdown_reason = ""
    /\ last_checked = hour(StartTime)
    /\ changed = {}
    /\ sent = <<>>
    /\ guard_fail = FALSE
    /\ restart_calls = 0
    /\ spawns = 0
    /\ restart_log = NoRestart
    /\ fail_run = 0
    /\ latest = EmptyStr
    /\ ticks = 0
    /\ sessions = 0
    /\ any_reset = FALSE
    /\ run_exit = ""

(* The life of the program is observed or not *)
LifeIdle(obs) ==
    /\ observe = obs
    /\ hb_any = NoReports
    /\ hb_sched = NoReports
    /\ alerts_total = 0
    /\ spawns_total = 0
    /\ scenario = "off"
    /\ sigint_lost = FALSE

(* No state() called on its own *)
NoCall == [raised |-> FALSE, value |-> OK]

(* What an inspection yields: err when it raised OSError, else its value *)
Yields(v) == [err |-> FALSE, value |-> v]
YieldsOSError == [err |-> TRUE, value |-> 0]

(* No File.just_changed_state yet *)
NoEdge == [called |-> FALSE, s1 |-> OK, s2 |-> OK, last |-> OK,
           ret |-> FALSE]

(* A FileGrows whose file has not changed since the construction *)
FileGrowsUnchanged ==
    /\ fg_last_state = OK
    /\ fg_changes = 0
    /\ fg_settled = TRUE
    /\ fg_evals = <<>>
    /\ fg_edges = <<>>
    /\ fg_rendered = FALSE
    /\ fg_alerts = 0

FileGrowsIdle ==
    /\ fg_last_size = 0
    /\ fg_entry_size = 0
    /\ fg_reads = <<YieldsOSError, YieldsOSError>>
    /\ fg_file = 0
    /\ FileGrowsUnchanged

FileIdle ==
    /\ f_dead_duration = 0
    /\ f_clock = 0
    /\ f_getmtime = YieldsOSError
    /\ f_last_state = OK
    /\ f_output_dead_duration = FALSE
    /\ f_edge = NoEdge

StateIdle ==
    /\ st_kind = "none"
    /\ st_failed = FALSE
    /\ st_out = NoCall
    /\ FileGrowsIdle
    /\ FileIdle

(* No HeartBeat on its own *)
HeartBeatIdle ==
    /\ hb_hour = heartbeat_hour
    /\ hb_last_checked = hour(StartTime)
    /\ hb_clock = StartTime
    /\ hb_called = FALSE
    /\ hb_prev = -1
    /\ hb_ret = FALSE
    /\ hb_example = 0
    /\ hb_rets = <<>>
    /\ hb_due_clock = -1
    /\ hb_session_dues = 0
    /\ hb_off_since = FALSE
    /\ hb_started_here = TRUE
    /\ hb_day_gap = FALSE

(* No send_email on its own *)
NoAttempt == [step |-> "none", exc |-> "none"]

SendEmailIdle ==
    /\ se_server = TRUE
    /\ se_pc = "idle"
    /\ se_retries = 0
    /\ se_attempts = 0
    /\ se_sendmails = 0
    /\ se_last = NoAttempt
    /\ se_slept = 0
    /\ se_reports = 0

(* No _find_last_numeric_subdir on its own *)
SubdirIdle ==
    /\ sd_existing = {}
    /\ sd_sub_data_dir = EmptyStr
    /\ sd_walk = {}
    /\ sd_last = None
    /\ sd_called = "none"

(* No time_until_full on its own *)
NoReads == [now1 |-> 0, now2 |-> 0, avail2 |-> 0, avail3 |-> 0,
            now4 |-> 0, avail4 |-> 0]
NoEstimate == [kind |-> "nocall", num |-> 0, den |-> 1]

DiskIdle ==
    /\ d_initial_space_remaining = 0
    /\ d_initial_time = 0
    /\ d_reads = NoReads
    /\ d_out = NoEstimate

(* No spawn yet *)
SpawnIdle ==
    /\ p_popen = "none"
    /\ p_ok_since = FALSE
    /\ p_all_recovered = TRUE

Units2Idle == SendEmailIdle /\ SubdirIdle /\ DiskIdle /\ SpawnIdle

Init ==
    /\ MainIdle
    /\ LifeIdle(FALSE)
    /\ CheckerIdle
    /\ HeartBeatIdle
    /\ StateIdle
    /\ Units2Idle

(* The program while the clock advances by its sleeps only: up to          *)
(* MaxSessions sessions, MaxTicks sleeps in the first and MaxLaterTicks in *)
(* every later one.  main's counter stays below MAX_RETRIES within         *)
(* MaxSessions sessions, so line 183 never fails here.                     *)
Next == Run \/ Sleep \/ MainNewSession \/ MainExceptNewDataDir \/ MainElse
        \/ MainExceptKeyboardInterrupt \/ MainExceptException

Spec == Init /\ [][Next]_vars

(* The program while the clock may also jump, every session followed to    *)
(* the end of its first tick: up to MaxMainSessions sessions.              *)
(* Process.restart cannot raise in a first tick, so run never returns.     *)
MainNewSessionAny == NewSessionUpTo(MaxMainSessions)

NextMain == Stall \/ Run \/ MainNewSessionAny \/ MainWhileEnd
            \/ MainExceptNewDataDir \/ MainExceptKeyboardInterrupt
            \/ MainExceptException

SpecMain == Init /\ [][NextMain]_vars

(* The program with its whole life observed: up to MaxLifeSessions         *)
(* sessions, MaxLifeTicks sleeps in the first and MaxLaterTicks in every   *)
(* later one, the clock advancing by the sleeps only.  Process.restart     *)
(* cannot raise within MaxLifeTicks sleeps, so run never returns.          *)
LifeSleep ==
    SleepUpTo(IF sessions = 1 THEN MaxLifeTicks ELSE MaxLaterTicks)
LifeNewSession == NewSessionUpTo(MaxLifeSessions)

(* The Process check has the restart command _set_config gives it *)
InitLife ==
    /\ MainIdle
    /\ restart_command = SomeCommand
    /\ LifeIdle(TRUE)
    /\ CheckerIdle
    /\ HeartBeatIdle
    /\ StateIdle
    /\ Units2Idle

NextLife == Run \/ LifeSleep \/ LifeNewSession \/ MainExceptNewDataDir
            \/ MainExceptKeyboardInterrupt \/ MainExceptException

SpecLife == InitLife /\ [][NextLife]_vars

----------------------------------------------------------------------------
(* A Process check on its own: any sequence of calls of state() and        *)
(* restart() while time passes.                                            *)

ProcessState ==
    /\ retries' = retries_after_html
    /\ restart_log' = NoRestart
    /\ \E up \in BOOLEAN :
          p_ok_since' = (p_ok_since \/ Process_state(up) = OK)
    /\ UNCHANGED <<now, restart_command, mainvars, i, html, last_state,
                   prev_restart_time, sub_data_dir, shutdown_reason,
                   last_checked, changed, sent, guard_fail, restart_calls,
                   spawns, fail_run, latest, runobs, lifeobs, cvars, hvars,
                   svars, mvars, nvars, dvars, p_popen, p_all_recovered>>

ProcessRestart ==
    /\ \E up \in BOOLEAN, popen \in PopenOutcomes :
        LET res == restart(restart_command, up, retries, prev_restart_time,
                           now)
            spawned == res.outcome = "spawned"
        IN
        /\ retries' = res.retries
        /\ prev_restart_time' = res.prev_restart_time
        /\ p_popen' = IF spawned THEN popen ELSE "none"
        /\ p_ok_since' = IF res.outcome = "already_ok" THEN TRUE
                         ELSE IF spawned THEN FALSE
                         ELSE p_ok_since
        /\ p_all_recovered' =
              IF res.outcome \in {"spawned", "raised"} /\ retries /= 0
              THEN p_all_recovered /\ p_ok_since
              ELSE p_all_recovered
        /\ restart_log' =
              [outcome |-> IF spawned /\ spawn(popen) = "raised"
                           THEN "spawn_raised" ELSE res.outcome,
               entry_retries |-> retries,
               entry_late |-> (now - prev_restart_time > RESET_RETRIES_AFTER),
               entry_up |-> up]
    /\ UNCHANGED <<now, restart_command, mainvars, i, html, last_state,
                   sub_data_dir, shutdown_reason, last_checked, changed, sent,
                   guard_fail, restart_calls, spawns, fail_run, latest,
                   runobs, lifeobs, cvars, hvars, svars, mvars, nvars,
                   dvars>>

Elapse ==
    /\ ticks < MaxElapses
    /\ \E d \in {RESTART_SLEEP, LongDelay} :
          /\ now + d <= MaxTime
          /\ now' = now + d
    /\ ticks' = ticks + 1
    /\ restart_log' = NoRestart
    /\ UNCHANGED <<restart_command, mainvars, mgrvars, changed, sent,
                   guard_fail, restart_calls, spawns, fail_run, latest,
                   sessions, any_reset, run_exit, lifeobs, unitvars>>

NextProcess == ProcessState \/ ProcessRestart \/ Elapse

SpecProcess == Init /\ [][NextProcess]_vars

----------------------------------------------------------------------------
(* A Checker on its own: the baseline stored by update_last_state, then    *)
(* any sequence of evaluated states seen by just_changed_state.  c_evals   *)
(* is the evaluated states since the baseline (the baseline first),        *)
(* c_edges the values just_changed_state returned.                         *)

States == {FAIL, OK}

CheckerBaseline ==
    /\ c_last_state \in States
    /\ c_evals = <<c_last_state>>
    /\ c_edges = <<>>

UpdateLastState ==
    /\ \E s \in States :
          /\ c_last_state' = s
          /\ c_evals' = <<s>>
    /\ c_edges' = <<>>
    /\ UNCHANGED <<now, restart_command, mainvars, mgrvars, tickobs, runobs,
                   lifeobs, hvars, svars, units2>>

CheckerJustChangedState ==
    /\ Len(c_evals) < MaxEvals
    /\ \E s \in States :
          LET jc == just_changed_state(s, c_last_state) IN
            /\ c_last_state' = jc.last_state
            /\ c_evals' = Append(c_evals, s)
            /\ c_edges' = Append(c_edges, jc.ret)
    /\ UNCHANGED <<now, restart_command, mainvars, mgrvars, tickobs, runobs,
                   lifeobs, hvars, svars, units2>>

InitChecker ==
    /\ MainIdle
    /\ LifeIdle(FALSE)
    /\ CheckerBaseline
    /\ HeartBeatIdle
    /\ StateIdle
    /\ Units2Idle

NextCheckerCalls == UpdateLastState \/ CheckerJustChangedState

SpecChecker == InitChecker /\ [][NextCheckerCalls]_vars

----------------------------------------------------------------------------
(* A HeartBeat and the scheduler on their own: the HeartBeat is            *)
(* constructed at a whole hour of the first day with any hour to report    *)
(* at; then the scheduler is called, or a new HeartBeat is constructed (a  *)
(* new session), after any whole number of hours up to MaxGapHours.        *)


(* The hours of the calls of the documented example *)
ExampleHours == <<5, 6, 6, 6, 7>>

(* HeartBeat.__init__ at time t *)
HeartBeatConstructed(t) ==
    /\ hb_last_checked = HeartBeat_last_checked(t)
    /\ hb_clock = t
    /\ hb_called = FALSE
    /\ hb_prev = -1
    /\ hb_ret = FALSE
    /\ hb_example = 0
    /\ hb_rets = <<>>
    /\ hb_due_clock = -1
    /\ hb_session_dues = 0
    /\ hb_off_since = FALSE
    /\ hb_started_here = TRUE
    /\ hb_day_gap = FALSE

Gaps == { h * SecondsPerHour : h \in 0..MaxGapHours }

(* Manager() of a later session: HeartBeat.__init__ again, the same hour   *)
(* configured.                                                             *)
HeartBeatNew ==
    /\ \E d \in Gaps :
          /\ hb_clock + d <= MaxClockHours * SecondsPerHour
          /\ hb_clock' = hb_clock + d
    /\ hb_last_checked' = HeartBeat_last_checked(hb_clock')
    /\ hb_called' = FALSE
    /\ hb_prev' = -1
    /\ hb_ret' = FALSE
    /\ hb_example' = 0
    /\ hb_rets' = <<>>
    /\ hb_session_dues' = 0
    /\ hb_off_since' = FALSE
    /\ hb_started_here' = TRUE
    /\ hb_day_gap' = FALSE
    /\ UNCHANGED <<now, restart_command, mainvars, mgrvars, tickobs, runobs,
                   lifeobs, cvars, svars, units2, hb_hour,
                   hb_due_clock>>

(* One call of Manager._need_to_send_heartbeat *)
NeedToSendHeartbeat ==
    /\ \E d \in Gaps :
          /\ hb_clock + d <= MaxClockHours * SecondsPerHour
          /\ hb_clock' = hb_clock + d
          /\ hb_started_here' = (hb_started_here /\ d = 0)
          /\ hb_day_gap' = (hb_day_gap \/ d >= 24 * SecondsPerHour)
    /\ LET now_hour == hour(hb_clock')
           need_to_send ==
               need_to_send_heartbeat(now_hour, hb_hour, hb_last_checked)
       IN
       /\ hb_ret' = need_to_send
       /\ hb_last_checked' = last_checked_after(now_hour, hb_last_checked)
       /\ hb_prev' = hb_last_checked
       /\ hb_called' = TRUE
       /\ hb_example' =
             IF /\ hb_example >= 0
                /\ hb_example < Len(ExampleHours)
                /\ now_hour = ExampleHours[hb_example + 1]
             THEN hb_example + 1 ELSE -1
       /\ hb_rets' = IF hb_example' > 0 THEN Append(hb_rets, need_to_send)
                     ELSE <<>>
       /\ hb_due_clock' = IF need_to_send THEN CalendarHour(hb_clock')
                          ELSE hb_due_clock
       /\ hb_session_dues' = hb_session_dues + (IF need_to_send THEN 1 ELSE 0)
       /\ hb_off_since' = IF need_to_send THEN FALSE
                          ELSE (hb_off_since \/ now_hour /= hb_hour)
    /\ UNCHANGED <<now, restart_command, mainvars, mgrvars, tickobs, runobs,
                   lifeobs, cvars, svars, units2, hb_hour>>

InitHeartbeat ==
    /\ MainIdle
    /\ restart_command = SomeCommand
    /\ LifeIdle(FALSE)
    /\ CheckerIdle
    /\ StateIdle
    /\ Units2Idle
    /\ hb_hour \in Hours
    /\ \E h \in Hours : HeartBeatConstructed(h * SecondsPerHour)

NextHeartbeat == NeedToSendHeartbeat \/ HeartBeatNew

SpecHeartbeat == InitHeartbeat /\ [][NextHeartbeat]_vars

(* A Manager whose configuration sets no heartbeat: HeartBeat.hour stays   *)
(* as HeartBeat.__init__ set it.                                           *)
InitNoHeartbeat ==
    /\ MainIdle
    /\ restart_command = SomeCommand
    /\ LifeIdle(FALSE)
    /\ CheckerIdle
    /\ StateIdle
    /\ Units2Idle
    /\ hb_hour = NoHour
    /\ \E h \in Hours : HeartBeatConstructed(h * SecondsPerHour)

SpecNoHeartbeat == InitNoHeartbeat /\ [][NextHeartbeat]_vars

----------------------------------------------------------------------------
(* The state() of each kind of check on its own, called in any order,      *)
(* under every outcome of the inspection it makes: os.statvfs, pidof,      *)
(* os.path.getmtime and os.path.getsize each succeed or fail.  A File with *)
(* the default timeout whose file, when it exists, was modified at         *)
(* FileModified is evaluated at times around the timeout; the file of a    *)
(* FileGrows has up to MaxFileSize bytes.                                  *)

Returns(v) == [raised |-> FALSE, value |-> v]
Raises == [raised |-> TRUE, value |-> FAIL]

(* DiskSpaceRemaining.state on the outcome of os.statvfs (free MB): the    *)
(* OSError of os.statvfs is caught nowhere.                                *)
DiskSpaceRemaining_state_on(statvfs) ==
    IF statvfs.err THEN Raises
    ELSE Returns(DiskSpaceRemaining_state(statvfs.value))

(* Process.state on the outcome of check_output(['pidof', ...]): a pid,    *)
(* CalledProcessError (no such process), or OSError (pidof cannot be run), *)
(* which line 199 does not catch.                                          *)
PidofOutcomes == {"pid", "CalledProcessError", "OSError"}

Process_state_on(pidof) ==
    IF pidof = "OSError" THEN Raises
    ELSE Returns(Process_state(pidof = "pid"))

(* File.last_modified on the outcome of os.path.getmtime *)
last_modified(getmtime) == IF getmtime.err THEN 0 ELSE getmtime.value

(* File.seconds_since_modified at time t *)
seconds_since_modified(t, getmtime) == t - last_modified(getmtime)

(* Faulty variant: a file is overdue only after more than timeout seconds *)
File_state_inclusive(t, getmtime) ==
    IF seconds_since_modified(t, getmtime) <= File_timeout THEN OK ELSE FAIL

(* File.state: the value returned *)
File_state(t, getmtime) ==
    IF seconds_since_modified(t, getmtime) < File_timeout THEN OK ELSE FAIL

(* FileGrows.size on the outcome of os.path.getsize *)
size(getsize) == IF getsize.err THEN 0 ELSE getsize.value

(* Faulty variant: the new size is not recorded *)
FileGrows_state_keeps_size(getsize1, getsize2, last_size) ==
    IF size(getsize1) = last_size
    THEN [value |-> OK, last_size |-> last_size]
    ELSE [value |-> FAIL, last_size |-> last_size]

(* Faulty variant: a changed size is recorded without a FAIL *)
FileGrows_state_silent(getsize1, getsize2, last_size) ==
    [value |-> OK, last_size |-> size(getsize2)]

(* FileGrows.state with the two reads of the size: the value returned and  *)
(* last_size afterwards.                                                   *)
FileGrows_state(getsize1, getsize2, last_size) ==
    IF size(getsize1) = last_size
    THEN [value |-> OK, last_size |-> last_size]
    ELSE [value |-> FAIL, last_size |-> size(getsize2)]

FileSizes == 0..MaxFileSize
FileTimes == { FileModified + d :
                 d \in {0, File_timeout - 1, File_timeout, File_timeout + 1} }
GetmtimeOutcomes == { YieldsOSError, Yields(FileModified) }
GetsizeOutcomes == { YieldsOSError } \cup { Yields(n) : n \in FileSizes }
StatvfsOutcomes == { YieldsOSError } \cup { Yields(a) : a \in AvailValues }

StateOfDiskSpaceRemaining ==
    /\ \E statvfs \in StatvfsOutcomes :
          /\ st_failed' = statvfs.err
          /\ st_out' = DiskSpaceRemaining_state_on(statvfs)
    /\ st_kind' = "DiskSpaceRemaining"
    /\ UNCHANGED <<now, restart_command, mainvars, mgrvars, tickobs, runobs,
                   lifeobs, cvars, hvars, units2, fgvars, fvars>>

StateOfProcess ==
    /\ \E pidof \in PidofOutcomes :
          /\ st_failed' = (pidof /= "pid")
          /\ st_out' = Process_state_on(pidof)
          /\ retries' = IF pidof = "OSError" THEN retries
                        ELSE retries_after_html
    /\ st_kind' = "Process"
    /\ UNCHANGED <<now, restart_command, mainvars, i, html, last_state,
                   prev_restart_time, sub_data_dir, shutdown_reason,
                   last_checked, tickobs, runobs, lifeobs, cvars, hvars,
                   units2, fgvars, fvars>>

(* File.state: the state from one read of the clock and of the             *)
(* modification time, dead_duration from a second read when it is FAIL.    *)
StateOfFile ==
    /\ \E t1 \in FileTimes, t2 \in FileTimes,
          getmtime1 \in GetmtimeOutcomes, getmtime2 \in GetmtimeOutcomes :
          /\ t1 <= t2
          /\ st_failed' = getmtime1.err
          /\ st_out' = Returns(File_state(t1, getmtime1))
          /\ f_dead_duration' =
                IF File_state(t1, getmtime1) = FAIL
                THEN seconds_since_modified(t2, getmtime2)
                ELSE f_dead_duration
          /\ f_clock' = t1
          /\ f_getmtime' = getmtime1
    /\ st_kind' = "File"
    /\ UNCHANGED <<now, restart_command, mainvars, mgrvars, tickobs, runobs,
                   lifeobs, cvars, hvars, units2, fgvars, f_last_state,
                   f_output_dead_duration, f_edge>>

StateOfFileGrows ==
    /\ \E getsize1 \in GetsizeOutcomes, getsize2 \in GetsizeOutcomes :
          LET res == FileGrows_state(getsize1, getsize2, fg_last_size) IN
            /\ st_failed' = getsize1.err
            /\ st_out' = Returns(res.value)
            /\ fg_last_size' = res.last_size
            /\ fg_entry_size' = fg_last_size
            /\ fg_reads' = <<getsize1, getsize2>>
    /\ st_kind' = "FileGrows"
    /\ UNCHANGED <<now, restart_command, mainvars, mgrvars, tickobs, runobs,
                   lifeobs, cvars, hvars, units2, fvars, fgobs>>

(* FileGrows.__init__ reads the size; a File starts with dead_duration 0.  *)
InitState ==
    /\ MainIdle
    /\ restart_command = SomeCommand
    /\ LifeIdle(FALSE)
    /\ CheckerIdle
    /\ HeartBeatIdle
    /\ st_kind = "none"
    /\ st_failed = FALSE
    /\ st_out = NoCall
    /\ \E getsize \in GetsizeOutcomes : fg_last_size = size(getsize)
    /\ fg_entry_size = 0
    /\ fg_reads = <<YieldsOSError, YieldsOSError>>
    /\ fg_file = 0
    /\ FileGrowsUnchanged
    /\ FileIdle
    /\ Units2Idle

NextState == StateOfDiskSpaceRemaining \/ StateOfProcess \/ StateOfFile
             \/ StateOfFileGrows

SpecState == InitState /\ [][NextState]_vars

----------------------------------------------------------------------------
(* Manager.send_email on its own: one call after another, each library     *)
(* call of a pass through the try block returning or raising.              *)

send_retries == 5

MaxReports == 3

Steps == {"SMTP_SSL", "connect", "login", "sendmail", "quit"}

(* The classes the except clauses name; "other" is any other exception.    *)
Transient == {"SMTPServerDisconnected", "SMTPConnectError", "socket.error"}
Exceptions == Transient \cup {"SMTPAuthenticationError", "other"}

(* How a pass through the try block ends: every call returned, or a call   *)
(* raised.                                                                 *)
Attempts ==
    {NoAttempt} \cup [step : Steps, exc : Exceptions]

(* Faulty variants: no clause for the transient errors; the                *)
(* authentication error handled as a transient one.                        *)
except_clause_no_transient(exc) ==
    IF exc = "none" THEN "else" ELSE "raise"

except_clause_auth_transient(exc) ==
    IF exc \in Transient \cup {"SMTPAuthenticationError"} THEN "retry"
    ELSE IF exc = "none" THEN "else"
    ELSE "raise"

(* The clause of the try statement that handles the pass: the first        *)
(* except clause sleeps and lets the loop go on, the two others re-raise,  *)
(* the else clause breaks.                                                 *)
except_clause(exc) ==
    IF exc \in Transient THEN "retry"
    ELSE IF exc = "SMTPAuthenticationError" THEN "raise"
    ELSE IF exc /= "none" THEN "raise"
    ELSE "else"

(* sendmail() returned in this pass *)
sendmail_returned(a) == a.step \in {"none", "quit"}

(* send_email up to the while loop *)
SendEmail ==
    /\ se_pc \in {"idle", "returned", "raised"}
    /\ se_reports < MaxReports
    /\ se_reports' = se_reports + 1
    /\ se_pc' = IF se_server THEN "while" ELSE "returned"
    /\ se_retries' = IF se_server THEN send_retries ELSE 0
    /\ se_attempts' = 0
    /\ se_sendmails' = 0
    /\ se_last' = NoAttempt
    /\ se_slept' = 0
    /\ UNCHANGED <<progvars, cvars, hvars, svars, nvars, dvars, pvars,
                   se_server>>

(* One iteration of the while loop *)
SendEmailAttempt ==
    /\ se_pc = "while"
    /\ se_retries > 0
    /\ se_retries' = se_retries - 1
    /\ se_attempts' = se_attempts + 1
    /\ \E a \in Attempts :
          LET clause == except_clause(a.exc) IN
            /\ se_last' = a
            /\ se_sendmails' =
                  se_sendmails + (IF sendmail_returned(a) THEN 1 ELSE 0)
            /\ se_slept' = se_slept + (IF clause = "retry" THEN 1 ELSE 0)
            /\ se_pc' = CASE clause = "retry" -> "while"
                          [] clause = "raise" -> "raised"
                          [] clause = "else" -> "returned"
    /\ UNCHANGED <<progvars, cvars, hvars, svars, nvars, dvars, pvars,
                   se_server, se_reports>>

(* The loop condition fails: send_email returns *)
SendEmailWhileEnd ==
    /\ se_pc = "while"
    /\ se_retries = 0
    /\ se_pc' = "returned"
    /\ UNCHANGED <<progvars, cvars, hvars, svars, nvars, dvars, pvars,
                   se_server, se_retries, se_attempts, se_sendmails,
                   se_last, se_slept, se_reports>>

InitSendEmail ==
    /\ MainIdle
    /\ LifeIdle(FALSE)
    /\ CheckerIdle
    /\ HeartBeatIdle
    /\ StateIdle
    /\ SubdirIdle
    /\ DiskIdle
    /\ SpawnIdle
    /\ se_server \in BOOLEAN
    /\ se_pc = "idle"
    /\ se_retries = 0
    /\ se_attempts = 0
    /\ se_sendmails = 0
    /\ se_last = NoAttempt
    /\ se_slept = 0
    /\ se_reports = 0

NextSendEmail == SendEmail \/ SendEmailAttempt \/ SendEmailWhileEnd

SpecSendEmail == InitSendEmail /\ [][NextSendEmail]_vars

(* A call that has started goes on: the interpreter runs the loop, and     *)
(* each library call returns or raises.                                    *)
SpecSendEmailFair ==
    /\ SpecSendEmail
    /\ WF_vars(SendEmailAttempt)
    /\ WF_vars(SendEmailWhileEnd)

----------------------------------------------------------------------------
(* Manager._find_last_numeric_subdir on its own: the logger creates        *)
(* directories under base_data_dir, load_powerdata binds the session to    *)
(* the latest one and run looks for a later one.                           *)

(* Names a directory under base_data_dir may have: "3", "10", "9", "t",    *)
(* "2a" and "1-".                                                          *)
SubdirNames == {<<51>>, <<49, 48>>, <<57>>, <<116>>, <<50, 97>>, <<49, 45>>}

(* The logger creates a directory *)
Mkdir ==
    /\ \E d \in SubdirNames \ sd_existing :
          sd_existing' = sd_existing \cup {d}
    /\ UNCHANGED <<progvars, cvars, hvars, svars, mvars, dvars, pvars,
                   sd_sub_data_dir, sd_walk, sd_last, sd_called>>

(* load_powerdata with numeric_subdirs (lines 662-664) *)
LoadPowerdataSubdir ==
    /\ sd_walk' = sd_existing
    /\ sd_last' = find_last_numeric_subdir(sd_existing)
    /\ sd_sub_data_dir' = find_last_numeric_subdir(sd_existing)
    /\ sd_called' = "load"
    /\ UNCHANGED <<progvars, cvars, hvars, svars, mvars, dvars, pvars,
                   sd_existing>>

(* The call that run makes when a subdirectory is bound (lines 596-597) *)
RunSubdirCheck ==
    /\ Truthy(base_data_dir)
    /\ Truthy(sd_sub_data_dir)
    /\ sd_walk' = sd_existing
    /\ sd_last' = find_last_numeric_subdir(sd_existing)
    /\ sd_called' = "run"
    /\ UNCHANGED <<progvars, cvars, hvars, svars, mvars, dvars, pvars,
                   sd_existing, sd_sub_data_dir>>

InitSubdir ==
    /\ MainIdle
    /\ LifeIdle(FALSE)
    /\ CheckerIdle
    /\ HeartBeatIdle
    /\ StateIdle
    /\ SendEmailIdle
    /\ DiskIdle
    /\ SpawnIdle
    /\ sd_existing \in SUBSET SubdirNames
    /\ sd_sub_data_dir = EmptyStr
    /\ sd_walk = {}
    /\ sd_last = None
    /\ sd_called = "none"

NextSubdir == Mkdir \/ LoadPowerdataSubdir \/ RunSubdirCheck

SpecSubdir == InitSubdir /\ [][NextSubdir]_vars

----------------------------------------------------------------------------
(* A File check on its own: constructed, given its baseline by             *)
(* update_last_state, then checked for an edge again and again, with       *)
(* state() called in between (html() calls it for the reports).  Each      *)
(* state() reads the clock and the modification time anew.                 *)

(* Faulty variant: the flag is set whenever the file is found OK *)
output_dead_duration_any_ok(s, last) == s = OK

(* File.output_dead_duration as line 256 assigns it *)
output_dead_duration(s, last) == s = OK /\ last = FAIL

(* File.dead_duration after a state() that read the clock at t1 and, to    *)
(* assign dead_duration, at t2                                             *)
dead_duration_after(t1, getmtime1, t2, getmtime2, dead_duration) ==
    IF File_state(t1, getmtime1) = FAIL
    THEN seconds_since_modified(t2, getmtime2)
    ELSE dead_duration

(* Checker.update_last_state on a File: before the first tick only *)
FileUpdateLastState ==
    /\ ~ f_edge.called
    /\ \E t1 \in FileTimes, t2 \in FileTimes,
          getmtime1 \in GetmtimeOutcomes, getmtime2 \in GetmtimeOutcomes :
          /\ t1 <= t2
          /\ f_last_state' = File_state(t1, getmtime1)
          /\ f_dead_duration' = dead_duration_after(t1, getmtime1, t2,
                                                    getmtime2, f_dead_duration)
          /\ f_clock' = t1
          /\ f_getmtime' = getmtime1
          /\ st_failed' = getmtime1.err
          /\ st_out' = Returns(File_state(t1, getmtime1))
    /\ st_kind' = "File"
    /\ UNCHANGED <<progvars, cvars, hvars, units2, fgvars,
                   f_output_dead_duration, f_edge>>

(* File.just_changed_state: the evaluation for the flag, then              *)
(* Checker.just_changed_state with an evaluation of its own                *)
FileJustChangedState ==
    /\ \E t1 \in FileTimes, t2 \in FileTimes, t3 \in FileTimes,
          t4 \in FileTimes,
          getmtime1 \in GetmtimeOutcomes, getmtime2 \in GetmtimeOutcomes,
          getmtime3 \in GetmtimeOutcomes, getmtime4 \in GetmtimeOutcomes :
          LET s1 == File_state(t1, getmtime1)
              s2 == File_state(t3, getmtime3)
              jc == just_changed_state(s2, f_last_state)
          IN
            /\ t1 <= t2 /\ t2 <= t3 /\ t3 <= t4
            /\ f_output_dead_duration' =
                  output_dead_duration(s1, f_last_state)
            /\ f_last_state' = jc.last_state
            /\ f_dead_duration' =
                  dead_duration_after(t3, getmtime3, t4, getmtime4,
                      dead_duration_after(t1, getmtime1, t2, getmtime2,
                                          f_dead_duration))
            /\ f_edge' = [called |-> TRUE, s1 |-> s1, s2 |-> s2,
                          last |-> f_last_state, ret |-> jc.ret]
            /\ f_clock' = t3
            /\ f_getmtime' = getmtime3
            /\ st_failed' = getmtime3.err
            /\ st_out' = Returns(s2)
    /\ st_kind' = "File"
    /\ UNCHANGED <<progvars, cvars, hvars, units2, fgvars>>

(* File.__init__, which ends with the update_last_state of                 *)
(* Checker.__init__                                                        *)
InitFile ==
    /\ MainIdle
    /\ LifeIdle(FALSE)
    /\ CheckerIdle
    /\ HeartBeatIdle
    /\ Units2Idle
    /\ FileGrowsIdle
    /\ \E t1 \in FileTimes, t2 \in FileTimes,
          getmtime1 \in GetmtimeOutcomes, getmtime2 \in GetmtimeOutcomes :
          /\ t1 <= t2
          /\ f_last_state = File_state(t1, getmtime1)
          /\ f_dead_duration =
                dead_duration_after(t1, getmtime1, t2, getmtime2, 0)
          /\ f_clock = t1
          /\ f_getmtime = getmtime1
          /\ st_failed = getmtime1.err
          /\ st_out = Returns(File_state(t1, getmtime1))
    /\ st_kind = "File"
    /\ f_output_dead_duration = FALSE
    /\ f_edge = NoEdge

NextFile == FileUpdateLastState \/ FileJustChangedState \/ StateOfFile

SpecFile == InitFile /\ [][NextFile]_vars

----------------------------------------------------------------------------
(* DiskSpaceRemaining.time_until_full on its own.  Time is in whole        *)
(* seconds and free space in whole MB (available_space divides integers);  *)
(* a rate is the pair of the ds and dt that space_decay_rate divides, and  *)
(* an estimate the pair num / den, in seconds: the floating-point          *)
(* quotients are taken as exact.  Each datetime.now() and each             *)
(* available_space() of a call is a read of its own.                       *)

(* Seconds after the construction at which the clock is read *)
DiskElapsed == {0, UPDATE_PERIOD, UPDATE_PERIOD + 1, 100}
(* Free space (MB) *)
DiskSpaces == {0, 990, 1000, 1010}

(* DiskSpaceRemaining.space_decay_rate: ds / dt *)
space_decay_rate(t, available_space, initial_time, initial_space) ==
    [ds |-> available_space - initial_space, dt |-> t - initial_time]

(* rate < 0, for a rate taken after the construction *)
rate_negative(rate) == rate.ds < 0 /\ rate.dt > 0

(* Faulty variant: an estimate from UPDATE_PERIOD seconds on *)
time_until_full_from_period(r, initial_time, initial_space) ==
    IF /\ r.now1 - initial_time >= UPDATE_PERIOD
       /\ rate_negative(space_decay_rate(r.now2, r.avail2, initial_time,
                                         initial_space))
    THEN LET rate == space_decay_rate(r.now4, r.avail4, initial_time,
                                      initial_space)
         IN  IF rate.ds = 0
             THEN [kind |-> "ZeroDivisionError", num |-> 0, den |-> 1]
             ELSE [kind |-> "estimate", num |-> r.avail3 * rate.dt,
                   den |-> - rate.ds]
    ELSE [kind |-> "None", num |-> 0, den |-> 1]

(* DiskSpaceRemaining.time_until_full on the reads r: None, or the         *)
(* estimate available_space() / -space_decay_rate(), whose division        *)
(* raises ZeroDivisionError when that rate is 0.                           *)
time_until_full(r, initial_time, initial_space) ==
    IF /\ r.now1 - initial_time > UPDATE_PERIOD
       /\ rate_negative(space_decay_rate(r.now2, r.avail2, initial_time,
                                         initial_space))
    THEN LET rate == space_decay_rate(r.now4, r.avail4, initial_time,
                                      initial_space)
         IN  IF rate.ds = 0
             THEN [kind |-> "ZeroDivisionError", num |-> 0, den |-> 1]
             ELSE [kind |-> "estimate", num |-> r.avail3 * rate.dt,
                   den |-> - rate.ds]
    ELSE [kind |-> "None", num |-> 0, den |-> 1]

(* The reads of one call, the clock going forward *)
DiskReads ==
    { r \in [now1 : { d_initial_time + e : e \in DiskElapsed },
             now2 : { d_initial_time + e : e \in DiskElapsed },
             avail2 : DiskSpaces, avail3 : DiskSpaces,
             now4 : { d_initial_time + e : e \in DiskElapsed },
             avail4 : DiskSpaces] :
        r.now1 <= r.now2 /\ r.now2 <= r.now4 }

(* DiskSpaceRemaining.__init__ *)
DiskSpaceRemainingNew ==
    /\ d_out /= NoEstimate
    /\ \E a \in DiskSpaces : d_initial_space_remaining' = a
    /\ d_initial_time' = StartTime
    /\ d_reads' = NoReads
    /\ d_out' = NoEstimate
    /\ UNCHANGED <<progvars, cvars, hvars, svars, mvars, nvars, pvars>>

(* time_until_full changes nothing of the object: one call is followed    *)
(* for each object                                                         *)
TimeUntilFull ==
    /\ d_out = NoEstimate
    /\ \E r \in DiskReads :
          /\ d_reads' = r
          /\ d_out' = time_until_full(r, d_initial_time,
                                      d_initial_space_remaining)
    /\ UNCHANGED <<progvars, cvars, hvars, svars, mvars, nvars, pvars,
                   d_initial_space_remaining, d_initial_time>>

InitDisk ==
    /\ MainIdle
    /\ LifeIdle(FALSE)
    /\ CheckerIdle
    /\ HeartBeatIdle
    /\ StateIdle
    /\ SendEmailIdle
    /\ SubdirIdle
    /\ SpawnIdle
    /\ d_initial_space_remaining \in DiskSpaces
    /\ d_initial_time = StartTime
    /\ d_reads = NoReads
    /\ d_out = NoEstimate

NextDisk == DiskSpaceRemainingNew \/ TimeUntilFull

SpecDisk == InitDisk /\ [][NextDisk]_vars

----------------------------------------------------------------------------
(* A FileGrows check in the supervisor loop: the file changes size, each   *)
(* tick of Manager.run makes the edge check, and between two edge checks   *)
(* a report may be rendered (the heartbeat, the report of a change of      *)
(* another check, both through Manager.html), which evaluates state().     *)
(* The two reads of the size in one evaluation find the same size.         *)

MaxChanges == 2
MaxFgEvals == 3

(* FileGrows.state when both reads find the size n *)
FileGrows_state_of(n, last_size) ==
    FileGrows_state(Yields(n), Yields(n), last_size)

(* The file grows or shrinks *)
FileChanges ==
    /\ fg_changes < MaxChanges
    /\ \E n \in FileSizes :
          /\ n /= fg_file
          /\ fg_file' = n
    /\ fg_changes' = fg_changes + 1
    /\ fg_settled' = (fg_last_size = fg_file /\ fg_last_state = OK)
    /\ fg_evals' = <<>>
    /\ fg_edges' = <<>>
    /\ fg_rendered' = FALSE
    /\ fg_alerts' = 0
    /\ UNCHANGED <<progvars, cvars, hvars, units2, fvars, st_kind, st_failed,
                   st_out, fg_last_size, fg_entry_size, fg_reads,
                   fg_last_state>>

(* Checker.html on this check, called by Manager.html: state_as_html       *)
(* evaluates state()                                                       *)
FileGrowsHtml ==
    /\ Len(fg_evals) < MaxFgEvals
    /\ LET res == FileGrows_state_of(fg_file, fg_last_size) IN
         /\ fg_last_size' = res.last_size
         /\ fg_entry_size' = fg_last_size
         /\ st_out' = Returns(res.value)
         /\ fg_evals' = Append(fg_evals, res.value)
    /\ fg_reads' = <<Yields(fg_file), Yields(fg_file)>>
    /\ st_failed' = FALSE
    /\ st_kind' = "FileGrows"
    /\ fg_rendered' = (fg_rendered \/ (fg_changes > 0 /\ fg_edges = <<>>))
    /\ UNCHANGED <<progvars, cvars, hvars, units2, fvars, fg_file,
                   fg_last_state, fg_changes, fg_settled, fg_edges,
                   fg_alerts>>

(* The edge check of a tick (lines 564-568): just_changed_state, and when  *)
(* it returns True the html() of the check for the alert, which evaluates  *)
(* state() once more                                                       *)
FileGrowsJustChangedState ==
    /\ Len(fg_evals) < MaxFgEvals
    /\ LET res == FileGrows_state_of(fg_file, fg_last_size)
           jc == just_changed_state(res.value, fg_last_state)
           res2 == FileGrows_state_of(fg_file, res.last_size)
       IN
         /\ fg_last_state' = jc.last_state
         /\ fg_edges' = Append(fg_edges, jc.ret)
         /\ fg_alerts' = fg_alerts + (IF jc.ret THEN 1 ELSE 0)
         /\ fg_evals' = IF jc.ret
                        THEN fg_evals \o <<res.value, res2.value>>
                        ELSE Append(fg_evals, res.value)
         /\ fg_last_size' = IF jc.ret THEN res2.last_size ELSE res.last_size
         /\ fg_entry_size' = IF jc.ret THEN res.last_size ELSE fg_last_size
         /\ st_out' = Returns(IF jc.ret THEN res2.value ELSE res.value)
    /\ fg_reads' = <<Yields(fg_file), Yields(fg_file)>>
    /\ st_failed' = FALSE
    /\ st_kind' = "FileGrows"
    /\ UNCHANGED <<progvars, cvars, hvars, units2, fvars, fg_file,
                   fg_changes, fg_settled, fg_rendered>>

(* FileGrows.__init__ records the size of the file; the baseline of run    *)
(* finds it unchanged.                                                     *)
InitFileGrows ==
    /\ MainIdle
    /\ LifeIdle(FALSE)
    /\ CheckerIdle
    /\ HeartBeatIdle
    /\ Units2Idle
    /\ FileIdle
    /\ st_kind = "none"
    /\ st_failed = FALSE
    /\ st_out = NoCall
    /\ fg_file \in FileSizes
    /\ fg_last_size = fg_file
    /\ fg_entry_size = 0
    /\ fg_reads = <<Yields(fg_file), Yields(fg_file)>>
    /\ FileGrowsUnchanged

NextFileGrows == FileChanges \/ FileGrowsHtml \/ FileGrowsJustChangedState

SpecFileGrows == InitFileGrows /\ [][NextFileGrows]_vars

----------------------------------------------------------------------------
(* Properties *)


(* The positions of the program at which the for loop and the report step  *)
(* of the current tick are over.                                           *)
TickReported == pc \in {"sleep", "new_data_dir"}

(* C1: edge detection.  After the baseline has been stored, every call of  *)
(* just_changed_state returns true exactly when the state it evaluated     *)
(* differs from the state stored before the call, and leaves the evaluated *)
(* state in last_state; hence evaluations OK, OK, FAIL, FAIL, OK give      *)
(* false, true, false, true.                                               *)
C1_EdgeDetection ==
    /\ Len(c_evals) = Len(c_edges) + 1
    /\ \A k \in 1..Len(c_edges) : c_edges[k] = (c_evals[k + 1] /= c_evals[k])
    /\ c_last_state = Last(c_evals)
    /\ (c_evals = <<OK, OK, FAIL, FAIL, OK>>
          => c_edges = <<FALSE, TRUE, FALSE, TRUE>>)

C1_Witness ==
    /\ c_evals = <<OK, OK, FAIL, FAIL, OK>>
    /\ c_edges = <<FALSE, TRUE, FALSE, TRUE>>
    /\ c_last_state = OK

(* C2: alerts are edge-triggered only.  A state-change report is among the *)
(* reports of a tick only if just_changed_state returned true for at least *)
(* one check in that tick.                                                 *)
C2_AlertOnlyOnEdge ==
    Count(sent, AlertReport) > 0 => changed /= {}

(* C3 as stated: every tick in which some check changed state sends        *)
(* exactly one state-change report, also the tick in which run returns on  *)
(* MaxRetriesError.                                                        *)
C3_AlertWheneverChanged ==
    (TickReported \/ pc = "run_returned") /\ changed /= {}
        => Count(sent, AlertReport) = 1

(* C3: every tick in which some check changed state and which reaches the  *)
(* report step (lines 584-590; run has not returned on MaxRetriesError in  *)
(* the for loop) sends exactly one state-change report, also when the      *)
(* Process check later in the list was restarted in the tick.              *)
C3_AlertWhenChangedAndReported ==
    TickReported /\ changed /= {} => Count(sent, AlertReport) = 1

C3_Witness ==
    /\ pc = "sleep"
    /\ changed = {1}
    /\ spawns = 1
    /\ Count(sent, AlertReport) = 1

(* C4: in every tick whose for loop is over, Process.restart has been      *)
(* called exactly once if line 570 found the Process check FAIL and not at *)
(* all otherwise, whether or not the check changed state in the tick; with *)
(* a restart command configured and the process still down when restart    *)
(* looks, the call spawned the command unless retries was above            *)
(* MAX_RESTART_RETRIES, in which case it raised.                           *)
C4_RestartOnEveryFailTick ==
    pc \in {"alert", "sleep", "new_data_dir", "run_returned"} =>
        /\ restart_calls = (IF guard_fail THEN 1 ELSE 0)
        /\ (guard_fail /\ restart_command /= NoCommand
              /\ restart_log.outcome /= "already_ok"
            => IF restart_log.entry_retries > MAX_RESTART_RETRIES
               THEN restart_log.outcome = "raised" /\ spawns = 0
               ELSE restart_log.outcome = "spawned" /\ spawns = 1)

C4_Witness ==
    /\ pc = "sleep"
    /\ guard_fail
    /\ ProcessIdx \notin changed
    /\ restart_calls = 1
    /\ spawns = 1
    /\ ticks > 0

(* C5 as stated: the restart call of the 6th consecutive FAIL tick (a      *)
(* restart command configured, no reset of retries in between) raises      *)
(* MaxRetriesError after exactly 5 spawns.                                 *)
C5_SixthFailTickRaises ==
    fail_run = MAX_RESTART_RETRIES + 1 /\ restart_log.outcome /= "none"
        => restart_log.outcome = "raised"

(* C6: retry counter reset.  A call of Process.restart that finds the      *)
(* process down, with a restart command configured, retries above zero and *)
(* more than RESET_RETRIES_AFTER seconds since prev_restart_time, spawns    *)
(* the command and leaves retries at 1 (reset to 0, then counted),         *)
(* whatever retries was; it does not raise MaxRetriesError.                *)
C6_RetryCounterReset ==
    /\ restart_log.outcome /= "none"
    /\ restart_command /= NoCommand
    /\ ~restart_log.entry_up
    /\ restart_log.entry_retries > 0
    /\ restart_log.entry_late
    => /\ restart_log.outcome = "spawned"
       /\ retries = 1
       /\ prev_restart_time = now

C6_Witness ==
    /\ restart_log.outcome = "spawned"
    /\ restart_log.entry_retries = MAX_RESTART_RETRIES + 1
    /\ restart_log.entry_late
    /\ retries = 1

(* C7: retries-exhausted is terminal.  run is left by return only when     *)
(* Process.restart raised, with the error text in shutdown_reason and      *)
(* nothing spawned; the only step that follows is main's shutdown, which   *)
(* sends one shutdown report carrying that reason and leaves the loop: no  *)
(* tick, evaluation, restart or session follows, and nothing follows the   *)
(* end of main.                                                            *)
C7_Step ==
    /\ pc /= "done"
    /\ (pc' = "run_returned" =>
          /\ restart_log'.outcome = "raised"
          /\ shutdown_reason' = MaxRetriesMsg
          /\ shutdown_reason' /= ""
          /\ spawns' = spawns)
    /\ (pc = "run_returned" =>
          /\ pc' = "done"
          /\ main_end' = "break"
          /\ sent' = <<[subject |-> "babysitter.py shutting down",
                         note |-> shutdown_reason]>>
          /\ UNCHANGED <<now, ticks, sessions, last_state,
                         prev_restart_time, shutdown_reason>>)

C7_RetriesExhaustedIsTerminal == [][C7_Step]_vars

C7_Witness ==
    /\ pc = "done"
    /\ run_exit = "return"
    /\ main_end = "break"
    /\ sent = <<[subject |-> "babysitter.py shutting down",
                  note |-> MaxRetriesMsg]>>
    /\ sessions = 1

(* C8: data-directory drift.  With base_data_dir and sub_data_dir set, a   *)
(* tick ends with NewDataDirError exactly when the latest numeric          *)
(* subdirectory it computed differs from sub_data_dir: then the last       *)
(* report sent is the closing heartbeat with the new-subdirectory notice   *)
(* and run has been left by the exception; otherwise the tick reaches the  *)
(* sleep.  With sub_data_dir unset the exception is never raised.          *)
C8_DataDirDrift ==
    /\ (pc = "new_data_dir" =>
          /\ Truthy(base_data_dir) /\ Truthy(sub_data_dir)
          /\ latest /= sub_data_dir
          /\ Last(sent) = [subject |-> "Babysitter heartbeat",
                           note |-> "New subdir found"]
          /\ run_exit = "NewDataDirError")
    /\ (pc = "sleep" /\ Truthy(base_data_dir) /\ Truthy(sub_data_dir) =>
          /\ latest = sub_data_dir
          /\ run_exit = "")

C8_Witness ==
    /\ pc = "new_data_dir"
    /\ sub_data_dir = <<51>>
    /\ latest = <<49, 48>>
    /\ Last(sent).note = "New subdir found"

(* C9: NewDataDirError is the only recoverable exit of run.  main catches  *)
(* it and goes back to the head of its loop; a session starts only at the  *)
(* head of the loop with the counter below MAX_RETRIES, as the first       *)
(* session or after NewDataDirError, with a fresh Manager; when run is     *)
(* left by return, KeyboardInterrupt or another exception no session       *)
(* starts and main ends.                                                   *)
C9_Step ==
    /\ (pc = "new_data_dir" =>
          pc' = "main_loop" /\ main_end' = "" /\ sessions' = sessions)
    /\ (sessions' /= sessions =>
          /\ sessions' = sessions + 1
          /\ pc = "main_loop"
          /\ main_retries < MAX_RETRIES
          /\ run_exit \in {"", "NewDataDirError"}
          /\ (sessions > 0 => run_exit = "NewDataDirError")
          /\ retries' = 0 /\ shutdown_reason' = "" /\ run_exit' = ""
          /\ pc' = "for")
    /\ (run_exit' \in {"return", "KeyboardInterrupt", "Exception"} =>
          /\ sessions' = sessions
          /\ pc' \in {"run_returned", "done"}
          /\ (pc' = "done" => main_end' \in {"break", "reraise"}))

C9_NewDataDirIsRecoverable == [][C9_Step]_vars

C9_Witness ==
    /\ sessions = 2
    /\ pc = "for"
    /\ run_exit = ""
    /\ retries = 0

(* C10: bounded session reconstruction.  main's counter stays between 0    *)
(* and MAX_RETRIES; a session starts only while it is below MAX_RETRIES,   *)
(* and the start sets it to 0 if more than RESET_AFTER seconds have passed *)
(* since previous_loop_time and adds 1 otherwise; while no reset happened  *)
(* the sessions started are as many as the counter, so at most             *)
(* MAX_RETRIES, and main ends at line 183 only with the counter at         *)
(* MAX_RETRIES.                                                            *)
C10_Inv ==
    /\ main_retries \in 0..MAX_RETRIES
    /\ (~any_reset => sessions = main_retries /\ sessions <= MAX_RETRIES)
    /\ (main_end = "while_end" => main_retries = MAX_RETRIES /\ pc = "done")

C10_Step ==
    sessions' /= sessions =>
        /\ sessions' = sessions + 1
        /\ main_retries < MAX_RETRIES
        /\ main_retries' = IF now > previous_loop_time + RESET_AFTER
                           THEN 0 ELSE main_retries + 1

C10_BoundedSessions == [](C10_Inv) /\ [][C10_Step]_vars

C10_Witness ==
    /\ pc = "done"
    /\ main_end = "while_end"
    /\ sessions = MAX_RETRIES
    /\ ~any_reset

(* C11: every call of _need_to_send_heartbeat, whatever the hour to report *)
(* at, last_checked and the current hour (each in 0..23), returns True     *)
(* exactly when the current hour is the hour to report at and last_checked *)
(* differs from the current hour, and leaves last_checked at the current   *)
(* hour; with 6 as the hour to report at, calls at the hours 5, 6, 6, 6, 7 *)
(* return False, True, False, False, False.                                *)
C11_HeartbeatDue ==
    /\ hb_called =>
          /\ hb_ret = (hour(hb_clock) = hb_hour /\ hb_prev /= hour(hb_clock))
          /\ hb_last_checked = hour(hb_clock)
    /\ (hb_hour = 6 /\ hb_example = Len(ExampleHours)) =>
          hb_rets = <<FALSE, TRUE, FALSE, FALSE, FALSE>>

C11_Witness ==
    /\ hb_hour = 6
    /\ hb_example = Len(ExampleHours)
    /\ hb_ret = FALSE
    /\ hb_prev = 6
    /\ hour(hb_clock) = 7

(* C13: between any two calls of _need_to_send_heartbeat on one HeartBeat   *)
(* that return True there is a call made at an hour other than the hour to *)
(* report at, and no two calls in one calendar hour return True.           *)
C13_Step ==
    hb_ret' =>
        /\ hb_session_dues > 0 => hb_off_since
        /\ hb_due_clock /= CalendarHour(hb_clock')

C13_OncePerTargetHour == [][C13_Step]_vars

C13_Witness ==
    /\ hb_ret
    /\ hb_session_dues = 2
    /\ hb_due_clock = 24 + hb_hour

C12_OneHeartbeatPerHour == hb_any.count <= 1

(* C12: over all sessions, at most one scheduled heartbeat report (lines   *)
(* 592-593) is sent within one calendar hour; the initial heartbeat of     *)
(* every session and the closing heartbeat are sent besides.               *)
C12_OneScheduledHeartbeatPerHour == hb_sched.count <= 1

C12_Witness ==
    /\ sessions = 2
    /\ pc = "sleep"
    /\ hb_sched = [hour |-> CalendarHour(now), count |-> 1]
    /\ hb_any.hour = CalendarHour(now)
    /\ hb_any.count >= 3

(* C15: the step that starts a session stores an evaluated state of every  *)
(* check as its last_state and sends exactly one report, a heartbeat (no   *)
(* state-change report, whatever the baseline), before the edge check of   *)
(* the first checker in the first tick; until the first sleep of a session *)
(* the first report sent is that heartbeat.                                *)
C15_Inv ==
    (sessions >= 1 /\ ticks = 0 /\ pc \in RunPcs \cup {"new_data_dir"}) =>
        /\ Len(sent) >= 1
        /\ sent[1] = [subject |-> "Babysitter heartbeat", note |-> ""]

C15_Step ==
    sessions' = sessions + 1 =>
        /\ \A k \in 1..NCheckers : last_state'[k] \in state(k)
        /\ sent' = <<[subject |-> "Babysitter heartbeat", note |-> ""]>>
        /\ changed' = {}
        /\ html' = FALSE
        /\ pc' = "for"
        /\ i' = 1
        /\ ticks' = 0

C15_SessionStart == [](C15_Inv) /\ [][C15_Step]_vars

C15_Witness ==
    /\ sessions = 2
    /\ ticks = 0
    /\ pc = "for"
    /\ i = 1
    /\ last_state[ProcessIdx] = FAIL
    /\ sent = <<[subject |-> "Babysitter heartbeat", note |-> ""]>>

(* C16 as stated: a session in which the Process check (with a restart     *)
(* command) is found dead by an edge check, restarted, and found running   *)
(* again by the edge check of the following tick has sent exactly one      *)
(* state-change report and spawned the restart command exactly once.       *)
C16_OneAlertOneSpawn ==
    scenario = "recovered" => alerts_total = 1 /\ spawns_total = 1

(* C16: such a session has sent exactly two state-change reports (the tick *)
(* of the death and the tick of the recovery) and spawned the restart      *)
(* command exactly once.                                                   *)
C16_TwoAlertsOneSpawn ==
    scenario = "recovered" => alerts_total = 2 /\ spawns_total = 1

C16_Witness ==
    /\ scenario = "recovered"
    /\ pc = "sleep"
    /\ ticks = 2
    /\ changed = {}
    /\ last_state[ProcessIdx] = OK
    /\ retries = 1

(* C17: every SIGINT or SIGTERM delivered while Manager.run executes (to   *)
(* the check sweep, the restart wait, the sleep, or while reports are      *)
(* sent) ends main at once: the shutdown reason is recorded, exactly one   *)
(* shutdown report is sent, and no further tick or session is run.         *)
C17_Delivered ==
    \/ run_exit' = "KeyboardInterrupt"
    \/ /\ sigint_lost'
       /\ pc \in {"alert", "main_loop"}
       /\ pc' \in {"sleep", "new_data_dir", "for"}

C17_Step ==
    C17_Delivered =>
        /\ pc' = "done"
        /\ main_end' = "break"
        /\ shutdown_reason' = "KeyboardInterrupt or SIGINT signal received"
        /\ sent' = <<[subject |-> "babysitter.py shutting down",
                      note |-> shutdown_reason']>>
        /\ UNCHANGED <<ticks, sessions>>

C17_InterruptShutsDown == [][C17_Step]_vars

(* C18: once main has ended, the exit status is 0 if it ended through an   *)
(* interrupt, and nonzero if it ended through an exception out of run or   *)
(* through the restart retries of the Process check being exhausted.       *)
C18_ExitStatus ==
    pc = "done" =>
        /\ run_exit = "KeyboardInterrupt" => exit_status = 0
        /\ run_exit \in {"Exception", "return"} => exit_status /= 0

(* C19: every call of state(), of every kind of check, returns OK or FAIL   *)
(* and does not raise; when the inspection it makes fails (os.statvfs,     *)
(* pidof, the stat of the file) it returns FAIL.                           *)
C19_StateNeverRaises ==
    st_kind /= "none" =>
        /\ ~st_out.raised
        /\ st_out.value \in {OK, FAIL}
        /\ st_failed => st_out.value = FAIL

(* C20: a Process check without a restart command: restart() spawns        *)
(* nothing, raises nothing and leaves retries and prev_restart_time as     *)
(* they are, whatever they are and however many consecutive ticks find the *)
(* process FAIL; run never returns because of it.                          *)
C20_NoRestartCommand ==
    /\ \A up \in BOOLEAN, r \in 0..(MAX_RESTART_RETRIES + 1),
          p \in {0, prev_restart_time, now} :
          restart(NoCommand, up, r, p, now) =
              [outcome |-> "no_command", retries |-> r,
               prev_restart_time |-> p]
    /\ restart_command = NoCommand =>
          /\ retries = 0
          /\ prev_restart_time = 0
          /\ spawns = 0
          /\ fail_run = 0
          /\ restart_log.outcome \in {"none", "no_command"}
          /\ pc /= "run_returned"
          /\ run_exit /= "return"

C20_Witness ==
    /\ restart_command = NoCommand
    /\ sessions = 1
    /\ ticks = MaxTicks
    /\ pc = "sleep"
    /\ restart_calls = 1
    /\ restart_log.outcome = "no_command"
    /\ last_state[ProcessIdx] = FAIL
    /\ changed = {}

(* C21: a call of Process.state() leaves prev_restart_time alone and sets   *)
(* retries to 0 exactly when retries is nonzero and more than              *)
(* RESET_RETRIES_AFTER seconds have passed since prev_restart_time, and    *)
(* otherwise leaves retries alone; retries grows and prev_restart_time     *)
(* changes only in a call of restart() that spawns.                        *)
C21_Step ==
    /\ (restart_log'.outcome = "none" /\ now' = now) =>
          /\ prev_restart_time' = prev_restart_time
          /\ retries' =
                IF /\ retries /= 0
                   /\ now - prev_restart_time > RESET_RETRIES_AFTER
                THEN 0 ELSE retries
    /\ (retries' > retries \/ prev_restart_time' /= prev_restart_time) =>
          /\ restart_log'.outcome = "spawned"
          /\ prev_restart_time' = now

C21_ProcessBookkeeping == [][C21_Step]_vars

C21_Witness ==
    /\ restart_log = NoRestart
    /\ retries = 0
    /\ prev_restart_time /= 0
    /\ now - prev_restart_time > RESET_RETRIES_AFTER

(* C22: send_email makes at most five passes through its try block per     *)
(* report; after a pass that failed with a server disconnect, a connect    *)
(* error or a socket error, the next step of the call is another pass      *)
(* while fewer than five were made, and a plain return once five were      *)
(* made; a pass in which nothing raised ends the call by a return, and a   *)
(* call that has ended makes no further pass; every call that has started  *)
(* ends, by a return or by raising.                                        *)
C22_Step ==
    /\ (se_pc = "while" /\ se_last.exc \in Transient
          /\ se_attempts < send_retries) =>
             se_attempts' = se_attempts + 1
    /\ (se_pc = "while" /\ se_last.exc \in Transient
          /\ se_attempts = send_retries) =>
             /\ se_pc' = "returned"
             /\ se_attempts' = se_attempts
    /\ (se_attempts' = se_attempts + 1 /\ se_last'.exc \in Transient) =>
             se_pc' = "while"
    /\ (se_attempts' = se_attempts + 1 /\ se_last'.exc = "none") =>
             se_pc' = "returned"
    /\ (se_pc \in {"returned", "raised"} /\ se_reports' = se_reports) =>
             se_attempts' = se_attempts

C22_AtMostFiveAttempts ==
    /\ [](se_attempts <= 5)
    /\ [][C22_Step]_vars
    /\ (se_pc = "while") ~> (se_pc \in {"returned", "raised"})

C22_Witness ==
    /\ se_pc = "returned"
    /\ se_attempts = 5
    /\ se_slept = 5
    /\ se_last.exc \in Transient

(* C23: a pass of send_email that fails with SMTPAuthenticationError ends  *)
(* the call by raising, whatever the passes before it did, and the call    *)
(* makes no pass after it.                                                 *)
C23_Step ==
    /\ (se_attempts' = se_attempts + 1
          /\ se_last'.exc = "SMTPAuthenticationError") =>
             /\ se_pc' = "raised"
             /\ se_slept' = se_slept
    /\ (se_pc = "raised" /\ se_last.exc = "SMTPAuthenticationError"
          /\ se_reports' = se_reports) =>
             /\ se_attempts' = se_attempts
             /\ se_pc' = "raised"

C23_AuthenticationErrorRaises == [][C23_Step]_vars

C23_Witness ==
    /\ se_pc = "raised"
    /\ se_last.exc = "SMTPAuthenticationError"
    /\ se_attempts = 3
    /\ se_slept = 2

(* C24: whatever the subdirectories of the base directory are,             *)
(* _find_last_numeric_subdir returns the greatest, in string order, of     *)
(* the names made of decimal digits only, and None when there is no such   *)
(* name; it never returns a name with a character that is not a digit.     *)
C24_DigitsOnly(d) == \A k \in 1..Len(d) : d[k] \in 48..57

C24_GreatestDigitName ==
    sd_called /= "none" =>
       LET digits == { d \in sd_walk : C24_DigitsOnly(d) } IN
         IF digits = {}
         THEN sd_last = None
         ELSE /\ sd_last \in digits
              /\ \A d \in digits : d = sd_last \/ StrLess(d, sd_last)

(* C25: the latest subdirectory is the one with the greatest numeric       *)
(* value, not the greatest string: of 3, 10 and 9 it is 10, when the       *)
(* session is bound and when run looks for a later directory.              *)
RECURSIVE C25_Value(_)
C25_Value(d) ==
    IF d = <<>> THEN 0
    ELSE 10 * C25_Value(SubSeq(d, 1, Len(d) - 1)) + (d[Len(d)] - 48)

C25_GreatestNumber ==
    (sd_called /= "none" /\ sd_last \in sd_walk /\ C24_DigitsOnly(sd_last))
      => \A d \in sd_walk :
            C24_DigitsOnly(d) => C25_Value(d) <= C25_Value(sd_last)

(* C26: FileGrows.state, with a missing file counted as a file of size 0:  *)
(* when the size it reads differs from the recorded size, whether larger   *)
(* or smaller, it returns FAIL and the recorded size becomes the size of   *)
(* the file (as read again for the assignment); when the size it reads     *)
(* equals the recorded size it returns OK and the recorded size stays.     *)
C26_Size(getsize) == IF getsize.err THEN 0 ELSE getsize.value

C26_FileGrowsState ==
    st_kind = "FileGrows" =>
       IF C26_Size(fg_reads[1]) /= fg_entry_size
       THEN /\ st_out = Returns(FAIL)
            /\ fg_last_size = C26_Size(fg_reads[2])
       ELSE /\ st_out = Returns(OK)
            /\ fg_last_size = fg_entry_size

C26_Witness ==
    /\ st_kind = "FileGrows"
    /\ st_out = Returns(FAIL)
    /\ fg_entry_size > 0
    /\ fg_reads = <<YieldsOSError, YieldsOSError>>
    /\ fg_last_size = 0

(* C27: File.state returns FAIL exactly when the time since the            *)
(* modification time is at least the timeout, and OK otherwise, a missing  *)
(* file having modification time 0: it returns FAIL at every evaluation    *)
(* while the file is missing.                                              *)
C27_FileState ==
    st_kind = "File" =>
       LET modified == IF f_getmtime.err THEN 0 ELSE f_getmtime.value IN
         /\ st_out.raised = FALSE
         /\ (st_out.value = FAIL) <=> (f_clock - modified >= 120)
         /\ (st_out.value = OK) <=> (f_clock - modified < 120)
         /\ f_getmtime.err => st_out.value = FAIL

C27_Witness ==
    /\ st_kind = "File"
    /\ st_out = Returns(FAIL)
    /\ f_getmtime.err = FALSE
    /\ f_clock - f_getmtime.value = 120

(* C28: the dead-duration flag of a File is true exactly when the latest   *)
(* edge check of that File found the file OK (in the evaluation it makes   *)
(* for the flag) with last_state FAIL; it keeps that value until the next  *)
(* edge check and is false in every other state: before the first edge     *)
(* check, after an edge check that found the file FAIL, and after an edge  *)
(* check that found it OK with last_state OK.  When the two evaluations    *)
(* of the edge check agree, the flag is true exactly when that edge check  *)
(* reported a change from FAIL to OK.                                      *)
C28_DeadDurationFlag ==
    /\ f_output_dead_duration <=>
          (f_edge.called /\ f_edge.s1 = OK /\ f_edge.last = FAIL)
    /\ (f_edge.called /\ f_edge.s1 = f_edge.s2) =>
          (f_output_dead_duration <=>
              (f_edge.ret /\ f_edge.last = FAIL /\ f_last_state = OK))

C28_Witness ==
    /\ f_output_dead_duration
    /\ f_edge.ret
    /\ f_edge.last = FAIL
    /\ f_last_state = OK
    /\ f_dead_duration > 0

(* C29: time_until_full yields an estimate only when more than             *)
(* UPDATE_PERIOD (10) seconds have passed since the construction and the   *)
(* decay rate, (free now - free at the construction) / seconds passed, is  *)
(* negative, and it yields no estimate when 10 seconds or fewer have       *)
(* passed or the rate is not negative; the estimate is the free space      *)
(* divided by the negated decay rate, each as read for the estimate; with  *)
(* 1000 MB free at the construction and 990 MB free 100 seconds later the  *)
(* rate is -0.1 MB/s and the estimate 9900 seconds.                        *)
C29_TimeUntilFull ==
    d_out /= NoEstimate =>
      LET elapsed1 == d_reads.now1 - d_initial_time
          ds2 == d_reads.avail2 - d_initial_space_remaining
          dt2 == d_reads.now2 - d_initial_time
          ds4 == d_reads.avail4 - d_initial_space_remaining
          dt4 == d_reads.now4 - d_initial_time
      IN
        /\ d_out.kind = "estimate" =>
              /\ elapsed1 > 10
              /\ ds2 * dt2 < 0
              /\ d_out.num * (- ds4) = d_reads.avail3 * dt4 * d_out.den
        /\ (elapsed1 <= 10 \/ ds2 * dt2 >= 0) => d_out.kind = "None"
        /\ (/\ d_initial_space_remaining = 1000
            /\ elapsed1 = 100 /\ dt2 = 100 /\ dt4 = 100
            /\ d_reads.avail2 = 990 /\ d_reads.avail3 = 990
            /\ d_reads.avail4 = 990) =>
              /\ 10 * ds2 = - dt2
              /\ d_out.kind = "estimate"
              /\ d_out.num = 9900 * d_out.den

C29_Witness ==
    /\ d_out.kind = "estimate"
    /\ d_initial_space_remaining = 1000
    /\ d_reads = [now1 |-> d_initial_time + 100,
                  now2 |-> d_initial_time + 100, avail2 |-> 990,
                  avail3 |-> 990,
                  now4 |-> d_initial_time + 100, avail4 |-> 990]

(* C30: when no heartbeat hour is configured, every call of                *)
(* _need_to_send_heartbeat returns False, whatever the hour of the clock   *)
(* and however many calls were made: no heartbeat is ever due.             *)
C30_Step ==
    (hb_hour = NoHour /\ hb_called') =>
        /\ hb_ret' = FALSE
        /\ hb_session_dues' = 0
        /\ hb_due_clock' = -1

C30_NoHeartbeatHour ==
    /\ [](hb_hour = NoHour => (~ hb_ret /\ hb_session_dues = 0))
    /\ [][C30_Step]_vars

C30_Witness ==
    /\ hb_hour = NoHour
    /\ hb_called
    /\ hb_day_gap
    /\ hb_prev /= hour(hb_clock)
    /\ hb_ret = FALSE

(* C31: a call of Process.restart raises MaxRetriesError exactly when a    *)
(* restart command is configured, the process is found FAIL by the call    *)
(* and retries, after the reset that the state() of the call may make, is  *)
(* above MAX_RESTART_RETRIES; the call that raises spawns nothing and      *)
(* leaves retries and prev_restart_time as they were.                      *)
C31_Step ==
    restart_log'.outcome /= "none" =>
       LET late == now - prev_restart_time > RESET_RETRIES_AFTER
           r0 == IF retries /= 0 /\ late THEN 0 ELSE retries
       IN
         /\ (restart_log'.outcome = "raised") <=>
               /\ restart_command /= NoCommand
               /\ ~ restart_log'.entry_up
               /\ r0 > MAX_RESTART_RETRIES
         /\ (restart_log'.outcome = "raised") =>
               /\ retries' = retries
               /\ prev_restart_time' = prev_restart_time
               /\ spawns' = spawns

C32_Step ==
    p_popen' /= "none" /\ restart_log'.outcome /= "none" =>
       LET late == now - prev_restart_time > RESET_RETRIES_AFTER
           r0 == IF retries /= 0 /\ late THEN 0 ELSE retries
       IN
         /\ restart_log'.outcome = "spawned"
         /\ retries' = r0 + 1
         /\ prev_restart_time' = now

C32_SpawnFailureCounts == [][C32_Step]_vars

C32_Witness ==
    /\ p_popen = "Exception"
    /\ restart_log.outcome = "spawned"
    /\ retries = restart_log.entry_retries + 1
    /\ prev_restart_time = now

(* C33: in every state of a Process check, whatever calls of state() and   *)
(* restart() were made and whenever, retries is between 0 and              *)
(* MAX_RESTART_RETRIES + 1, and prev_restart_time is set (not 0) when      *)
(* retries is above 0.                                                     *)
C33_RetriesBounded ==
    /\ 0 <= retries
    /\ retries <= MAX_RESTART_RETRIES + 1
    /\ retries > 0 => prev_restart_time /= 0

C33_Witness ==
    /\ retries = MAX_RESTART_RETRIES + 1
    /\ restart_log.outcome = "spawned"
    /\ prev_restart_time = now

(* C34: no endless restart storm.  While a Process check with a restart    *)
(* command is found FAIL by every evaluation, tick after tick less than    *)
(* RESET_RETRIES_AFTER seconds apart, retries is never reset: it counts    *)
(* the ticks of the streak, each restart setting prev_restart_time to the  *)
(* time of the call; the streak has at most MAX_RESTART_RETRIES + 2        *)
(* ticks, the last of which raises MaxRetriesError and ends the session    *)
(* with the retries-exhausted reason.                                      *)
C34_Inv ==
    /\ fail_run <= MAX_RESTART_RETRIES + 2
    /\ (fail_run > 0 /\ restart_log.outcome = "spawned") =>
          /\ retries = fail_run
          /\ restart_log.entry_retries = fail_run - 1
    /\ (fail_run = MAX_RESTART_RETRIES + 2 /\ restart_log.outcome /= "none")
          => /\ restart_log.outcome = "raised"
             /\ pc \in {"run_returned", "done"}
             /\ shutdown_reason = MaxRetriesMsg

C34_Step ==
    (restart_log'.outcome = "spawned" /\ fail_run' > 0
       /\ restart_log' /= restart_log) =>
          prev_restart_time' = now

C34_NoRestartStorm == [](C34_Inv) /\ [][C34_Step]_vars

C34_Witness ==
    /\ fail_run = MAX_RESTART_RETRIES + 2
    /\ restart_log.outcome = "raised"
    /\ pc = "run_returned"
    /\ spawns = 0
    /\ ticks >= MAX_RESTART_RETRIES + 1

(* C35: recovery does not refill the retry budget.  retries decreases      *)
(* only in a call made more than RESET_RETRIES_AFTER seconds after         *)
(* prev_restart_time: never because the process is found running, by       *)
(* state() or by restart itself.  A process that is found running again    *)
(* after every restart still gets MaxRetriesError from the restart that    *)
(* finds it down with retries above MAX_RESTART_RETRIES, less than         *)
(* RESET_RETRIES_AFTER seconds after the previous attempt.                 *)
C35_Step ==
    /\ retries' < retries =>
          now - prev_restart_time > RESET_RETRIES_AFTER
    /\ (restart_log'.outcome = "already_ok"
          /\ now - prev_restart_time <= RESET_RETRIES_AFTER) =>
          retries' = retries
    /\ (p_ok_since' /\ now = now'
          /\ now - prev_restart_time <= RESET_RETRIES_AFTER) =>
          retries' >= retries
    /\ (/\ restart_log'.outcome /= "none"
        /\ restart_command /= NoCommand
        /\ ~ restart_log'.entry_up
        /\ retries = MAX_RESTART_RETRIES + 1
        /\ now - prev_restart_time <= RESET_RETRIES_AFTER) =>
          restart_log'.outcome = "raised"

C35_RecoveryDoesNotRefill == [][C35_Step]_vars

C35_Witness ==
    /\ restart_log.outcome = "raised"
    /\ retries = MAX_RESTART_RETRIES + 1
    /\ p_all_recovered
    /\ p_ok_since

(* C36: the FAIL of a FileGrows is a pulse of one evaluation.  After one   *)
(* change of the size, found with the recorded size up to date and         *)
(* followed by no other change, the first evaluation of state() returns    *)
(* FAIL and every later one OK.  When no report is rendered between the    *)
(* change and the edge check that follows it, the edge checks of the two   *)
(* ticks that follow the change both return True (to FAIL, back to OK)     *)
(* and the later ones False: one change gives two state-change alerts.     *)
C36_FailIsAPulse ==
    (fg_changes > 0 /\ fg_settled) =>
       /\ \A k \in 1..Len(fg_evals) :
             fg_evals[k] = (IF k = 1 THEN FAIL ELSE OK)
       /\ ~ fg_rendered =>
             /\ \A k \in 1..Len(fg_edges) : fg_edges[k] = (k <= 2)
             /\ fg_alerts = (IF Len(fg_edges) >= 2 THEN 2 ELSE Len(fg_edges))

C36_Witness ==
    /\ fg_changes = 1
    /\ fg_settled
    /\ ~ fg_rendered
    /\ fg_edges = <<TRUE, TRUE>>
    /\ fg_evals = <<FAIL, OK, OK, OK>>
    /\ fg_alerts = 2

(* C37 as stated: no change of the size is lost.  After a change of the    *)
(* size, found with the recorded size up to date and followed by no other  *)
(* change, one of the edge checks of the two ticks that follow returns     *)
(* True, also when a report was rendered between the change and the first  *)
(* of them.                                                                *)
C37_NoTransitionLost ==
    (fg_changes > 0 /\ fg_settled /\ Len(fg_edges) >= 1) =>
       /\ \E k \in 1..Len(fg_edges) : fg_edges[k] = TRUE
       /\ fg_alerts >= 1

(* C38 as stated: a report is transmitted at most once.  Within one call   *)
(* of send_email at most one pass through the try block has its sendmail   *)
(* return, also when the quit after it fails with a server disconnect.     *)
C38_TransmittedAtMostOnce == se_sendmails <= 1

(* C39 as stated: every end of main after a Manager was constructed comes  *)
(* after shutdown() on the last Manager: once main has ended, on an        *)
(* interrupt, on an exception out of run, on run returning or on the while *)
(* condition failing after repeated NewDataDirError, the last thing sent   *)
(* is the shutdown report of that Manager.                                 *)
C39_ShutdownOnEveryExit ==
    (pc = "done" /\ sessions >= 1) =>
        sent = <<ShutdownReport(shutdown_reason)>>

(* C40: the directory watcher is active only in a session bound to a       *)
(* numeric subdirectory.  While sub_data_dir is unset (no numeric          *)
(* subdirectory existed when load_powerdata configured the session) no     *)
(* tick ends with NewDataDirError: the end of every tick leads to the      *)
(* sleep (or main ends on an interrupt or another exception), also when a  *)
(* numeric subdirectory exists by then, and run is never left by           *)
(* NewDataDirError in that session.                                        *)
C40_Inv ==
    ~ Truthy(sub_data_dir) =>
        /\ pc /= "new_data_dir"
        /\ run_exit /= "NewDataDirError"

C40_Step ==
    (pc = "alert" /\ ~ Truthy(sub_data_dir)) =>
        /\ pc' \in {"alert", "sleep", "done"}
        /\ run_exit' /= "NewDataDirError"
        /\ sub_data_dir' = sub_data_dir

C40_WatcherNeedsBoundSubdir == [](C40_Inv) /\ [][C40_Step]_vars

C40_Witness ==
    /\ pc = "sleep"
    /\ sessions >= 1
    /\ ~ Truthy(sub_data_dir)
    /\ latest = <<49, 48>>
    /\ run_exit = ""

====
